---- MODULE Spec2Model ----
(***************************************************************************)
(* Verification model of the outline / section / ranking pipeline of       *)
(* Nanashibi/adobe-final.                                                   *)
(*                                                                         *)
(*   1b/src/ranker.py            rank_sections (order, rerank, MMR loop),   *)
(*                               select_snippet and its text helpers        *)
(*   1b/src/main.py              deduplicate_sections and its helpers       *)
(*   1b/src/outline_extractor.py extract_outline                            *)
(*   1b/src/section_extractor.py extract_sections                           *)
(*   1a/main.py                  PDFOutlineExtractor                        *)
(*   1b/src/main.py              main: the batch over collections           *)
(*   1b/src/embeddings_cache.py  encode_texts_with_cache                    *)
(*   1b/src/ranker.py            is_clean_title, _build_queries, the        *)
(*                               length and title boosts                    *)
(*   1b/src/recommender.py       load_sections_from_output                  *)
(*   1b/src/library_index.py     build_and_save_library and its helpers     *)
(*                                                                         *)
(* Every component has its own specification (SpecRank, ...) over the       *)
(* shared variable list; the variables of the other components stay idle.   *)
(*                                                                         *)
(* Numbers.  Python floats are modelled as exact fixed-point integers:      *)
(* scores and MMR values in 1/10000, cosine similarities and the diversity  *)
(* coefficient in 1/100, font sizes in 1/100 pt.  Rounding error of the     *)
(* float arithmetic is not modelled.                                        *)
(***************************************************************************)
EXTENDS Integers, Sequences, FiniteSets, TLC

VARIABLES
    \* ---- rank_sections (1b/src/ranker.py) ----
    rk_pc,          \* position in rank_sections
    score,          \* section id -> s['score'] (stage 2 result), 1/10000
    ce,             \* section id -> s['_ce'] or None
    mmr,            \* section id -> s['_mmr'] or None, 1/10000
    ranks_cross,    \* "none" | "ok" | "raises": the cross-encoder collaborator
    top_n,
    diversity,      \* 1/100
    ordered,        \* candidate order (sequence of section ids)
    selected,
    selected_idx,
    rk_i,           \* loop index of the MMR loop (1-based)
    ranked,         \* the returned list
    \* ---- deduplicate_sections (1b/src/main.py) ----
    dd_pc,          \* position in deduplicate_sections
    dd_sections,    \* the argument: sequence of section records
    similarity_threshold,   \* 1/100
    normalized_sets,        \* token set of every section
    kept,           \* indices into dd_sections (1-based)
    dd_i,           \* index of the section the outer loop is at
    dd_result,      \* the returned list
    \* ---- select_snippet (1b/src/ranker.py) ----
    sn_pc,          \* position in select_snippet
    original_text,
    query_terms,
    snippet,        \* the returned str
    \* ---- extract_outline, extract_sections (1b/src) ----
    ol_pc,          \* position in extract_outline / extract_sections
    doc,            \* the opened PDF: the sequence of its pages (page kinds)
    title,
    body_size,      \* 1/100 pt
    headings,
    seen_norm_titles,
    page_num,       \* 0-based, as in the code
    sections,       \* the list returned by extract_sections
    boosts,         \* rank_sections: length and title boosts of the sections
    \* ---- PDFOutlineExtractor, process_pdfs (1a/main.py) ----
    ex_pc,          \* position in process_pdfs / extract_outline
    detected_language,      \* self.detected_language: None or <<language>>
    multilingual_patterns,  \* self.multilingual_patterns: None or <<language>>,
                            \* the key whose entry of MULTILINGUAL_PATTERNS it is
    pdf_files,      \* the documents of the input directory, in glob order
    pdf_i,          \* number of files processed so far
    ex_title,       \* title of the file being processed
    results,        \* the result written for every processed file
    \* ---- main (1b/src/main.py) ----
    ba_pc,          \* position in main
    collections,    \* os.listdir(input_root): the collections, in listing order
    col_i,          \* index of the collection the outer loop is at
    doc_i,          \* index of the document the inner loop is at
    all_sections,
    dedup_input,    \* None, or <<the list deduplicate_sections was called with>>
    outputs,        \* the output files written so far
    \* ---- encode_texts_with_cache (1b/src/embeddings_cache.py) ----
    ca_pc,          \* process -> position in encode_texts_with_cache
    embeddings,     \* the table of the cache file: sha -> None or <<vec>>
    ca_texts,       \* process -> the texts argument of its call
    ca_normalize,   \* process -> the normalize argument of its call
    cached_rows,    \* process -> the rows its SELECT returned
    ca_out,         \* process -> the embeddings its last call returned
    ca_calls,       \* process -> number of calls it has made
    \* ---- is_clean_title (1b/src/section_extractor.py, 1b/src/ranker.py) ----
    tf_pc,          \* position: heading, raised, skipped, section, ranked
    tf_title,       \* the heading title
    tf_segmenter,   \* what is_clean_title of section_extractor.py did
    tf_ranker,      \* title_quality of rank_sections, in 1/10000
    \* ---- _build_queries (1b/src/ranker.py) ----
    bq_pc,          \* run -> position in _build_queries
    bq_persona,     \* the persona of both runs
    bq_job,         \* the job of both runs
    bq_queries,     \* run -> the list _build_queries returned
    \* ---- main, recommender.py and library_index.py: outputs and library ----
    li_pc,          \* position in the body of main's loop, lines 192-247
    faiss_available,        \* FAISS_AVAILABLE
    top_lists,      \* per collection, the list rank_sections returned
    li_i,           \* number of collections processed
    output_files,   \* the challenge1b_output.json files under the output root
    loaded_sections,        \* what load_sections_from_output returned last
    meta_file,      \* cache/library_meta.json: None or <<meta>>
    index_file      \* cache/library.index: None or <<the texts indexed>>

rk_vars == <<rk_pc, score, ce, mmr, ranks_cross, top_n, diversity, ordered,
             selected, selected_idx, rk_i, ranked>>

dd_vars == <<dd_pc, dd_sections, similarity_threshold, normalized_sets, kept,
             dd_i, dd_result>>

sn_vars == <<sn_pc, original_text, query_terms, snippet>>

ol_vars == <<ol_pc, doc, title, body_size, headings, seen_norm_titles,
             page_num, sections, boosts>>

ex_vars == <<ex_pc, detected_language, multilingual_patterns, pdf_files, pdf_i,
             ex_title, results>>

ba_vars == <<ba_pc, collections, col_i, doc_i, all_sections, dedup_input,
             outputs>>

ca_vars == <<ca_pc, embeddings, ca_texts, ca_normalize, cached_rows, ca_out,
             ca_calls>>

tf_vars == <<tf_pc, tf_title, tf_segmenter, tf_ranker>>

bq_vars == <<bq_pc, bq_persona, bq_job, bq_queries>>

li_vars == <<li_pc, faiss_available, top_lists, li_i, output_files,
             loaded_sections, meta_file, index_file>>

vars == <<rk_vars, dd_vars, sn_vars, ol_vars, ex_vars, ba_vars, ca_vars, tf_vars, bq_vars, li_vars>>

\* What a step of one component leaves alone: the other components.
rk_others == <<dd_vars, sn_vars, ol_vars, ex_vars, ba_vars, ca_vars, tf_vars, bq_vars, li_vars>>
dd_others == <<rk_vars, sn_vars, ol_vars, ex_vars, ba_vars, ca_vars, tf_vars, bq_vars, li_vars>>
sn_others == <<rk_vars, dd_vars, ol_vars, ex_vars, ba_vars, ca_vars, tf_vars, bq_vars, li_vars>>
ol_others == <<rk_vars, dd_vars, sn_vars, ex_vars, ba_vars, ca_vars, tf_vars, bq_vars, li_vars>>
ex_others == <<rk_vars, dd_vars, sn_vars, ol_vars, ba_vars, ca_vars, tf_vars, bq_vars, li_vars>>
ba_others == <<rk_vars, dd_vars, sn_vars, ol_vars, ex_vars, ca_vars, tf_vars, bq_vars, li_vars>>
ca_others == <<rk_vars, dd_vars, sn_vars, ol_vars, ex_vars, ba_vars, tf_vars, bq_vars, li_vars>>
tf_others == <<rk_vars, dd_vars, sn_vars, ol_vars, ex_vars, ba_vars, ca_vars, bq_vars, li_vars>>
bq_others == <<rk_vars, dd_vars, sn_vars, ol_vars, ex_vars, ba_vars, ca_vars, tf_vars, li_vars>>
li_others == <<rk_vars, dd_vars, sn_vars, ol_vars, ex_vars, ba_vars, ca_vars, tf_vars, bq_vars>>

\* An absent dict key is the empty sequence, a present value v is <<v>>.
None == <<>>

(***************************************************************************)
(* Generic helpers                                                         *)
(***************************************************************************)
Min2(a, b) == IF a <= b THEN a ELSE b
Max2(a, b) == IF a >= b THEN a ELSE b

\* Python's tuple order on the two-component sort keys used here.
KeyGreater(a, b) == a[1] > b[1] \/ (a[1] = b[1] /\ a[2] > b[2])

\* Python's sorted(seq, key=..., reverse=True): descending and stable.
\* key maps every element of seq to its (two-component) sort key.
SortedReverse(seq, key) ==
    LET n == Len(seq)
        pos(i) == 1 + Cardinality({j \in 1..n : KeyGreater(key[seq[j]], key[seq[i]])})
                    + Cardinality({j \in 1..(i - 1) : key[seq[j]] = key[seq[i]]})
    IN  [k \in 1..n |-> seq[CHOOSE i \in 1..n : pos(i) = k]]

\* Python slice seq[:k] for k >= 0.
Prefix(seq, k) == SubSeq(seq, 1, Min2(Len(seq), k))
\* Python slice seq[k:] for k >= 0.
Suffix(seq, k) == SubSeq(seq, k + 1, Len(seq))

(***************************************************************************)
(* Text.  A Python str is a sequence of one-character strings.  A Text     *)
(* record [head, fill] is the str  head + "." * fill : a long text whose    *)
(* tail carries length but no words.                                        *)
(***************************************************************************)
UPPER == <<"A", "B", "C", "D", "E", "F", "G", "H", "I", "J", "K", "L", "M",
           "N", "O", "P", "Q", "R", "S", "T", "U", "V", "W", "X", "Y", "Z">>
LOWER == <<"a", "b", "c", "d", "e", "f", "g", "h", "i", "j", "k", "l", "m",
           "n", "o", "p", "q", "r", "s", "t", "u", "v", "w", "x", "y", "z">>
DIGITS == {"0", "1", "2", "3", "4", "5", "6", "7", "8", "9"}
LowerSet == {LOWER[i] : i \in DOMAIN LOWER}
UpperSet == {UPPER[i] : i \in DOMAIN UPPER}
\* \s of the re module and the separators of str.split()
SPACES == {" ", "\n", "\t", "\r"}

\* str.lower() on one character
LowerChar(c) ==
    IF c \in UpperSet THEN LOWER[CHOOSE i \in DOMAIN UPPER : UPPER[i] = c] ELSE c
\* str.lower()
StrLower(t) == [i \in 1..Len(t) |-> LowerChar(t[i])]

Indices(n) == [i \in 1..n |-> i]

\* The maximal runs, in order, of the characters of t that are in class C
\* (inside = TRUE) or outside it (inside = FALSE).
Runs(t, C, inside) ==
    LET n == Len(t)
        st == SelectSeq(Indices(n), LAMBDA i :
                  /\ (t[i] \in C) = inside
                  /\ (i = 1 \/ (t[i - 1] \in C) # inside))
        en == SelectSeq(Indices(n), LAMBDA i :
                  /\ (t[i] \in C) = inside
                  /\ (i = n \/ (t[i + 1] \in C) # inside))
    IN  [k \in 1..Len(st) |-> SubSeq(t, st[k], en[k])]

\* str.split(): the maximal runs of non-space characters, in order
Split(t) == Runs(t, SPACES, FALSE)

\* str.strip()
Strip(t) ==
    IF \A i \in 1..Len(t) : t[i] \in SPACES THEN <<>>
    ELSE LET n == Len(t)
             first == CHOOSE i \in 1..n :
                          t[i] \notin SPACES /\ \A j \in 1..(i - 1) : t[j] \in SPACES
             back == CHOOSE d \in 0..(n - 1) :
                          t[n - d] \notin SPACES /\ \A j \in (n - d + 1)..n : t[j] \in SPACES
         IN  SubSeq(t, first, n - back)

\* sep.join(list)
RECURSIVE Join(_, _)
Join(list, sep) ==
    IF list = <<>> THEN <<>>
    ELSE IF Len(list) = 1 THEN list[1]
    ELSE LET h == Len(list) \div 2
         IN  Join(SubSeq(list, 1, h), sep) \o sep \o Join(SubSeq(list, h + 1, Len(list)), sep)

\* unit * reps
Repeat(unit, reps) ==
    [i \in 1..(Len(unit) * reps) |-> unit[((i - 1) % Len(unit)) + 1]]

SeqToSet(seq) == {seq[i] : i \in 1..Len(seq)}

TextLen(x) == Len(x.head) + x.fill

(***************************************************************************)
(* deduplicate_sections and its helpers (1b/src/main.py)                    *)
(***************************************************************************)
MaxDedup == 3             \* longest section list given to deduplicate_sections
MIN_TOKEN_LEN == 3
QUALITY_LEN_CAP == 4000
MAIN_THRESHOLD == 82      \* main(): similarity_threshold=0.82

\* _normalize_text_for_hash on the head of a text: lower(), every character
\* outside [a-z0-9\s] becomes a space, split(), tokens of length >= 3.
\* The "." fill turns into spaces and adds no token.
_normalize_text_for_hash(t) ==
    LET low == StrLower(t)
        cleaned == [i \in 1..Len(low) |->
                       IF low[i] \in LowerSet \cup DIGITS \cup SPACES THEN low[i] ELSE " "]
    IN  SelectSeq(Split(cleaned), LAMBDA tok : Len(tok) >= MIN_TOKEN_LEN)

\* set(_normalize_text_for_hash(s.get('text', '')))
TokenSet(sec) == SeqToSet(_normalize_text_for_hash(sec.text.head))

\* _jaccard as the exact fraction <<numerator, denominator>>
JaccardOverlap(a, b) ==
    IF a = {} /\ b = {} THEN <<1, 1>>
    ELSE IF a = {} \/ b = {} THEN <<0, 1>>
    ELSE <<Cardinality(a \cap b), Min2(Cardinality(a), Cardinality(b))>>
_jaccard(a, b) ==
    IF a = {} /\ b = {} THEN <<1, 1>>
    ELSE IF a = {} \/ b = {} THEN <<0, 1>>
    ELSE <<Cardinality(a \cap b), Max2(1, Cardinality(a \cup b))>>

\* fraction j >= thr / 100
AtLeast(j, thr) == j[1] * 100 >= thr * j[2]

\* s.get('level', 'H3') of a section; level_score * 0.5 in 1/10000
LevelOf(sec) == IF sec.level = None THEN "H3" ELSE sec.level[1]
LevelHalf(sec) ==
    IF LevelOf(sec) = "H1" THEN 5000 ELSE IF LevelOf(sec) = "H2" THEN 4000 ELSE 3000

\* _section_quality as the exact fraction <<numerator, denominator>> of 1/10000:
\* level_score*0.5 + min(length,4000)/4000*0.4 + (1/max(1,page_number))*0.1
QualityIgnoresLength(sec) ==
    LET page == Max2(1, sec.page_number)
    IN  <<LevelHalf(sec) * page + 1000, page>>
_section_quality(sec) ==
    LET page == Max2(1, sec.page_number)
    IN  <<(LevelHalf(sec) + Min2(TextLen(sec.text), QUALITY_LEN_CAP)) * page + 1000, page>>

\* fraction a > fraction b
FracGreater(a, b) == a[1] * b[2] > b[1] * a[2]

\* list.remove(x): drops the first occurrence of x
ListRemove(seq, x) ==
    LET at == CHOOSE i \in 1..Len(seq) : seq[i] = x /\ \A j \in 1..(i - 1) : seq[j] # x
    IN  SubSeq(seq, 1, at - 1) \o SubSeq(seq, at + 1, Len(seq))

\* Section texts: the two texts of the travel example (Jaccard 3/4), the
\* second also as a long text, and a text without any token of length >= 3.
TravelGuide == [head |-> <<"T", "r", "a", "v", "e", "l", " ", "g", "u", "i", "d", "e", ":", " ", "E", "u", "r", "o", "p", "e">>, fill |-> 0]
TravelTips == [head |-> <<"t", "r", "a", "v", "e", "l", " ", "g", "u", "i", "d", "e", " ", "e", "u", "r", "o", "p", "e", " ", "t", "i", "p", "s">>, fill |-> 0]
TravelTipsLong == [head |-> <<"t", "r", "a", "v", "e", "l", " ", "g", "u", "i", "d", "e", " ", "e", "u", "r", "o", "p", "e", " ", "t", "i", "p", "s">>, fill |-> 4100]
NoTokens == [head |-> <<"a", " ", "t", "o", " ", "g", "o">>, fill |-> 0]
\* a text whose Jaccard is 4/5 with the second and 3/5 with the first
TravelMaps == [head |-> <<"t", "r", "a", "v", "e", "l", " ", "g", "u", "i", "d", "e", " ", "e", "u", "r", "o", "p", "e", " ", "t", "i", "p", "s", " ", "m", "a", "p", "s">>, fill |-> 0]
DedupTexts == {TravelGuide, TravelTips, TravelTipsLong, NoTokens}
\* (level, page_number) of a section; a fallback section has no level key
DedupPlaces == {<<<<"H1">>, 1>>, <<None, 1>>, <<<<"H2">>, 2>>}
DedupPool ==
    {[text |-> t, level |-> pl[1], page_number |-> pl[2]] : t \in DedupTexts, pl \in DedupPlaces}
    \cup {[text |-> TravelMaps, level |-> None, page_number |-> 1]}
ThresholdVals == {70, MAIN_THRESHOLD}

DedupIdle ==
    /\ dd_pc = "idle" /\ dd_sections = <<>> /\ similarity_threshold = 0
    /\ normalized_sets = <<>> /\ kept = <<>> /\ dd_i = 0 /\ dd_result = <<>>

\* State on entry to deduplicate_sections(sections, similarity_threshold)
DedupCalled ==
    /\ dd_pc = "called"
    /\ dd_sections \in UNION {[1..n -> DedupPool] : n \in 1..MaxDedup}
    /\ similarity_threshold \in ThresholdVals
    /\ normalized_sets = <<>> /\ kept = <<>> /\ dd_i = 0 /\ dd_result = <<>>

\* lines 109-110
DedupNormalize ==
    /\ dd_pc = "called"
    /\ normalized_sets' = [i \in 1..Len(dd_sections) |-> TokenSet(dd_sections[i])]
    /\ kept' = <<>>
    /\ dd_i' = 1
    /\ dd_pc' = "loop"
    /\ UNCHANGED <<dd_sections, similarity_threshold, dd_result>>
    /\ UNCHANGED dd_others

\* The first kept index whose token set is similar enough to section i (0: none)
FirstSimilar(sets, kp, i, thr) ==
    IF \E q \in 1..Len(kp) : AtLeast(_jaccard(sets[i], sets[kp[q]]), thr)
    THEN CHOOSE q \in 1..Len(kp) :
            /\ AtLeast(_jaccard(sets[i], sets[kp[q]]), thr)
            /\ \A r \in 1..(q - 1) : ~AtLeast(_jaccard(sets[i], sets[kp[r]]), thr)
    ELSE 0

\* lines 111-123: one iteration of the outer loop; section i is not similar
\* to any kept section
DedupKeep ==
    /\ dd_pc = "loop" /\ dd_i <= Len(dd_sections)
    /\ FirstSimilar(normalized_sets, kept, dd_i, similarity_threshold) = 0
    /\ kept' = Append(kept, dd_i)
    /\ dd_i' = dd_i + 1
    /\ UNCHANGED <<dd_pc, dd_sections, similarity_threshold, normalized_sets, dd_result>>
    /\ UNCHANGED dd_others

\* lines 111-121: one iteration of the outer loop; section i duplicates the
\* kept section k_idx, the better of the two stays
DedupDuplicate ==
    /\ dd_pc = "loop" /\ dd_i <= Len(dd_sections)
    /\ FirstSimilar(normalized_sets, kept, dd_i, similarity_threshold) # 0
    /\ LET k_idx == kept[FirstSimilar(normalized_sets, kept, dd_i, similarity_threshold)]
           better == IF FracGreater(_section_quality(dd_sections[dd_i]),
                                    _section_quality(dd_sections[k_idx]))
                     THEN dd_i ELSE k_idx
       IN  kept' = IF better = dd_i THEN Append(ListRemove(kept, k_idx), dd_i) ELSE kept
    /\ dd_i' = dd_i + 1
    /\ UNCHANGED <<dd_pc, dd_sections, similarity_threshold, normalized_sets, dd_result>>
    /\ UNCHANGED dd_others

\* line 124
DedupReturn ==
    /\ dd_pc = "loop" /\ dd_i > Len(dd_sections)
    /\ dd_result' = [k \in 1..Len(kept) |-> dd_sections[kept[k]]]
    /\ dd_pc' = "returned"
    /\ UNCHANGED <<dd_sections, similarity_threshold, normalized_sets, kept, dd_i>>
    /\ UNCHANGED dd_others

DedupNext == DedupNormalize \/ DedupKeep \/ DedupDuplicate \/ DedupReturn

(***************************************************************************)
(* select_snippet and its text helpers (1b/src/ranker.py)                   *)
(***************************************************************************)
MaxReps == 301            \* longest repetition of a unit in an input text
MAX_TOKENS == 150         \* select_snippet(..., max_tokens=150)
FALLBACK_CHARS == 600     \* original_text[:600]
MIN_WORD_LEN == 2         \* tokenize_words: [a-z0-9]{2,}
MIN_QUERY_LEN == 2        \* q_terms: len(t) > 2

BULLET == "U+2022"        \* the one character U+2022
MIDDOT == "U+00B7"        \* the one character U+00B7
BULLETS == {BULLET, MIDDOT}
WORD == LowerSet \cup UpperSet \cup DIGITS \cup {"_"}     \* \w
SENTENCE_END == {".", "!", "?"}

\* re.sub(r"(\w)-\n(\w)", r"\1\2", t): matches are taken left to right and do
\* not overlap, so a match starting at i rules out one starting at i + 3
DeHyphenate(t) ==
    LET n == Len(t)
        pat(i) == /\ i + 3 <= n
                  /\ t[i] \in WORD /\ t[i + 1] = "-" /\ t[i + 2] = "\n" /\ t[i + 3] \in WORD
        hit[i \in 1..n] == pat(i) /\ (i <= 3 \/ ~hit[i - 3])
        keep == SelectSeq(Indices(n), LAMBDA i :
                    ~((i >= 2 /\ hit[i - 1]) \/ (i >= 3 /\ hit[i - 2])))
    IN  [k \in 1..Len(keep) |-> t[keep[k]]]

\* t.replace(c, r) for the characters c of C
ReplaceChars(t, C, r) == [i \in 1..Len(t) |-> IF t[i] \in C THEN r ELSE t[i]]

\* re.sub(r"[C]+", " ", t): every maximal run of characters of C becomes one space
CollapseRuns(t, C) ==
    LET keep == SelectSeq(Indices(Len(t)), LAMBDA i :
                    t[i] \notin C \/ i = 1 \/ t[i - 1] \notin C)
    IN  [k \in 1..Len(keep) |-> IF t[keep[k]] \in C THEN " " ELSE t[keep[k]]]

\* normalize_text, lines 54-68
normalize_text(text) ==
    IF text = <<>> THEN <<>>
    ELSE LET t1 == DeHyphenate(text)
             t2 == ReplaceChars(ReplaceChars(t1, {"\r"}, " "), {"\n"}, " ")
             t3 == CollapseRuns(t2, BULLETS)
             t4 == CollapseRuns(t3, {"\t"})
             t5 == CollapseRuns(t4, SPACES)
         IN  StrLower(Strip(t5))

\* tokenize_words, lines 73-75
tokenize_words(text) ==
    IF text = <<>> THEN <<>>
    ELSE SelectSeq(Runs(StrLower(text), LowerSet \cup DIGITS, TRUE),
                   LAMBDA w : Len(w) >= MIN_WORD_LEN)

\* build_bigrams, line 79
build_bigrams(terms) == [i \in 1..(Len(terms) - 1) |-> <<terms[i], terms[i + 1]>>]

\* sentence_split, lines 83-88: re.split(r"(?<=[\.!?])\s+", text.strip()); a
\* separator is a maximal run of spaces that follows . ! or ?
sentence_split(text) ==
    IF text = <<>> THEN <<>>
    ELSE LET t == Strip(text)
             n == Len(t)
             st == SelectSeq(Indices(n), LAMBDA i :
                       /\ t[i] \notin SPACES
                       /\ \/ i = 1
                          \/ /\ t[i - 1] \in SPACES
                             /\ LET d == CHOOSE d \in 0..(i - 2) :
                                            /\ \A k \in (i - 1 - d)..(i - 1) : t[k] \in SPACES
                                            /\ (i - 1 - d = 1 \/ t[i - 2 - d] \notin SPACES)
                                IN  i - 1 - d > 1 /\ t[i - 2 - d] \in SENTENCE_END)
             en == SelectSeq(Indices(n), LAMBDA i :
                       i = n \/ (t[i] \in SENTENCE_END /\ t[i + 1] \in SPACES))
             parts == [k \in 1..Len(st) |-> Strip(SubSeq(t, st[k], en[k]))]
         IN  SelectSeq(parts, LAMBDA q : Len(q) > 0)

\* sent_score, lines 102-110
sent_score(sentence, q_terms, q_bigrams) ==
    LET tokens == tokenize_words(sentence)
        token_set == SeqToSet(tokens)
        unigram_hits == Cardinality({i \in 1..Len(q_terms) : q_terms[i] \in token_set})
        pairs == SeqToSet(build_bigrams(tokens))
        bigram_hits == IF Len(tokens) > 1 /\ q_bigrams # <<>>
                       THEN Cardinality({i \in 1..Len(q_bigrams) : q_bigrams[i] \in pairs})
                       ELSE 0
    IN  unigram_hits + 2 * bigram_hits

\* line 112: max(range(len(sentences)), key=...), the first index of a maximum
BestIdx(scores) ==
    LET n == Len(scores)
        top == CHOOSE m \in SeqToSet(scores) : \A i \in 1..n : scores[i] <= m
    IN  SelectSeq(Indices(n), LAMBDA i : scores[i] = top)[1]

\* lines 119-122: trim to max_tokens whitespace-delimited tokens
Trim(text, max_tokens) ==
    LET tokens == Split(text)
    IN  Join(IF Len(tokens) > max_tokens THEN Prefix(tokens, max_tokens) ELSE tokens,
             <<" ">>)

\* select_snippet, lines 98-122, for a text whose sentences parsed
ComposeSnippet(sentences, terms, max_tokens) ==
    LET q_terms == SelectSeq(terms, LAMBDA w : Len(w) > MIN_QUERY_LEN)
        q_bigrams == build_bigrams(q_terms)
        scores == [i \in 1..Len(sentences) |-> sent_score(sentences[i], q_terms, q_bigrams)]
        best_idx == BestIdx(scores)
        start == Max2(1, best_idx - 1)
        end == Min2(Len(sentences), best_idx + 1)
    IN  Trim(Join(SubSeq(sentences, start, end), <<" ">>), max_tokens)

\* Input texts: a unit repeated; units that normalise to nothing (bullets,
\* blank lines), one long sentence, many short sentences, a line-wrapped word.
SnippetUnits ==
    { <<BULLET, " ">>, <<"\n", "\t">>, <<"a", "b", " ">>, <<"G", "o", " ", "n", "o", "w", ".", " ">>, <<"P", "l", "a", "n", " ", "a", " ", "t", "r", "i", "p", "!", " ">>, <<"c", "o", "-", "\n", "o", "p", ".", " ">> }
SnippetReps == {0, 1, 2, 3, MAX_TOKENS + 1, MaxReps}
SnippetQueries == { <<>>, <<<<"p", "l", "a", "n">>, <<"t", "r", "i", "p">>>>, <<<<"g", "o">>, <<"n", "o", "w">>, <<"p", "l", "a", "n">>, <<"t", "r", "i", "p">>>> }

SnippetIdle ==
    /\ sn_pc = "idle" /\ original_text = <<>> /\ query_terms = <<>> /\ snippet = <<>>

\* State on entry to select_snippet(original_text, query_terms)
SnippetCalled ==
    /\ sn_pc = "called"
    /\ original_text \in {Repeat(u, r) : u \in SnippetUnits, r \in SnippetReps}
    /\ query_terms \in SnippetQueries
    /\ snippet = <<>>

\* lines 93-96: no sentence parsed, the first 600 raw characters are returned
SnippetFallback ==
    /\ sn_pc = "called"
    /\ sentence_split(normalize_text(original_text)) = <<>>
    /\ snippet' = Prefix(original_text, FALLBACK_CHARS)
    /\ sn_pc' = "returned"
    /\ UNCHANGED <<original_text, query_terms>>
    /\ UNCHANGED sn_others

\* lines 93-122
SnippetSelect ==
    /\ sn_pc = "called"
    /\ LET sentences == sentence_split(normalize_text(original_text))
       IN  /\ sentences # <<>>
           /\ snippet' = ComposeSnippet(sentences, query_terms, MAX_TOKENS)
    /\ sn_pc' = "returned"
    /\ UNCHANGED <<original_text, query_terms>>
    /\ UNCHANGED sn_others

SnippetNext == SnippetFallback \/ SnippetSelect

(***************************************************************************)
(* A PDF as PyMuPDF shows it: a sequence of pages; a page has a height, a   *)
(* list of blocks (page.get_text("dict")) and a plain text                  *)
(* (page.get_text()); a text block has spans, an image block has no         *)
(* "lines".  bbox coordinates are whole points.                             *)
(***************************************************************************)
Span(text, size, bold, x0, y0, y1) ==
    [text |-> text, size |-> size, bold |-> bold, x0 |-> x0, y0 |-> y0, y1 |-> y1]
TextBlock(spans) == [lines |-> TRUE, spans |-> spans]
ImageBlock == [lines |-> FALSE, spans |-> <<>>]
INF == 1000000            \* float('inf')
PAGE_HEIGHT == 792

T_Handbook ==
    <<"T", "r", "a", "v", "e", "l", " ", "H", "a", "n", "d", "b", "o", "o",
      "k">>

T_Body ==
    <<"P", "l", "a", "i", "n", " ", "b", "o", "d", "y", " ", "t", "e", "x",
      "t", " ", "o", "f", " ", "t", "h", "e", " ", "p", "a", "g", "e", ".">>

\* a page full of body text: 1740 characters
T_Dense == Repeat(T_Body \o <<" ">>, 60)

T_OverviewColon ==
    <<"O", "v", "e", "r", "v", "i", "e", "w", ":">>

T_BodyStart ==
    <<"P", "l", "a", "i", "n", " ", "b", "o", "d", "y", " ">>

T_BodyEnd ==
    <<"t", "e", "x", "t", ".">>

T_Overview ==
    <<"O", "v", "e", "r", "v", "i", "e", "w">>

T_NumOverview ==
    <<"1", ".", " ", "O", "v", "e", "r", "v", "i", "e", "w">>

T_Notes ==
    <<"N", "O", "T", "E", "S">>

T_SeeNotes ==
    <<" ", "s", "e", "e", " ", "n", "o", "t", "e", "s", " ", "b", "e", "l",
      "o", "w", " ">>

T_Item ==
    <<"-", " ", "p", "a", "c", "k", "i", "n", "g", " ", "i", "t", "e", "m">>

T_Introduction ==
    <<"I", "n", "t", "r", "o", "d", "u", "c", "t", "i", "o", "n">>

T_GettingThere ==
    <<"G", "e", "t", "t", "i", "n", "g", " ", "t", "h", "e", "r", "e">>

T_WhereToStay ==
    <<"W", "h", "e", "r", "e", " ", "t", "o", " ", "s", "t", "a", "y">>

T_Document ==
    <<"D", "o", "c", "u", "m", "e", "n", "t">>

T_Formulario ==
    <<"F", "O", "R", "M", "U", "L", "A", "R", "I", "O", " ", "D", "E", " ",
      "S", "O", "L", "I", "C", "I", "T", "U", "D">>
T_Nombre ==
    <<"N", "o", "m", "b", "r", "e", " ", "y", " ", "f", "e", "c", "h", "a">>
T_Informe ==
    <<"I", "n", "f", "o", "r", "m", "e", " ", "a", "n", "u", "a", "l", " ",
      "d", "e", "l", " ", "p", "r", "o", "y", "e", "c", "t", "o">>
T_Resumen ==
    <<"R", "e", "s", "u", "m", "e", "n">>
T_Introduccion ==
    <<"I", "n", "t", "r", "o", "d", "u", "c", "c", "i", "U+00F3", "n">>
T_ApplicationForm ==
    <<"A", "P", "P", "L", "I", "C", "A", "T", "I", "O", "N", " ", "F", "O",
      "R", "M", " ", "F", "O", "R", " ", "L", "E", "A", "V", "E">>
T_Applicant ==
    <<"N", "a", "m", "e", " ", "o", "f", " ", "t", "h", "e", " ", "a", "p",
      "p", "l", "i", "c", "a", "n", "t">>
T_Shenqingbiao ==
    <<"U+7533", "U+8BF7", "U+8868">>
T_Cankaowenxian ==
    <<"U+53C2", "U+8003", "U+6587", "U+732E">>
T_Shinseisho ==
    <<"U+7533", "U+8ACB", "U+66F8">>
T_ProjectOverview ==
    <<"P", "r", "o", "j", "e", "c", "t", " ", "o", "v", "e", "r", "v", "i",
      "e", "w">>
T_Budget ==
    <<"1", ".", "2", " ", "B", "u", "d", "g", "e", "t">>

\* the pages of the documents of extract_outline / extract_sections (1b)
PageKinds == {"body", "cover", "chapter", "numbered", "small", "blank"}
\* the pages of the documents of PDFOutlineExtractor (1a); a character outside
\* ASCII is written as its code point
FormPageKinds == {"es_form", "es_report", "en_form", "zh_form", "ja_form", "en_plain"}

\* page.get_text("dict")["blocks"] of a page of each kind
PageBlocks(kind) ==
    CASE kind = "body" ->
           <<TextBlock(<<Span(T_Body, 1200, FALSE, 72, 200, 214)>>)>>
      [] kind = "cover" ->
           <<ImageBlock,
             TextBlock(<<Span(T_Handbook, 1800, TRUE, 72, 60, 80)>>),
             TextBlock(<<Span(T_Body, 1200, FALSE, 72, 200, 214)>>)>>
      [] kind = "chapter" ->
           <<TextBlock(<<Span(T_Handbook, 900, FALSE, 72, 10, 20)>>),
             TextBlock(<<Span(T_Overview, 1400, TRUE, 72, 100, 116)>>),
             TextBlock(<<Span(T_BodyStart, 1196, FALSE, 72, 200, 214),
                         Span(T_BodyEnd, 1204, FALSE, 130, 200, 214)>>),
             TextBlock(<<Span(T_GettingThere, 1200, FALSE, 40, 300, 314)>>)>>
      [] kind = "numbered" ->
           <<TextBlock(<<Span(T_NumOverview, 1200, FALSE, 72, 100, 114)>>),
             TextBlock(<<Span(T_Body, 1200, FALSE, 72, 200, 214)>>),
             TextBlock(<<Span(T_Notes, 1000, FALSE, 72, 300, 310)>>),
             TextBlock(<<Span(T_Item, 1200, FALSE, 72, 400, 414)>>)>>
      [] kind = "small" ->
           <<TextBlock(<<Span(T_SeeNotes, 1000, FALSE, 40, 400, 410)>>),
             TextBlock(<<Span(T_Introduction, 1400, TRUE, 72, 100, 116)>>),
             TextBlock(<<Span(T_WhereToStay, 1200, TRUE, 72, 200, 214)>>)>>
      [] kind = "blank" -> <<ImageBlock>>
      [] kind = "dense" ->
           <<TextBlock(<<Span(T_Dense, 1200, FALSE, 72, 72, 720)>>)>>
      [] kind = "colon" ->
           <<TextBlock(<<Span(T_OverviewColon, 1400, TRUE, 72, 100, 116)>>),
             TextBlock(<<Span(T_Body, 1200, FALSE, 72, 200, 214)>>)>>
      [] kind = "headed" ->
           <<TextBlock(<<Span(T_Handbook, 1800, TRUE, 72, 60, 80)>>),
             TextBlock(<<Span(T_Dense, 1204, FALSE, 72, 100, 720)>>)>>
      [] kind = "numhead" ->
           <<TextBlock(<<Span(T_NumOverview, 1800, TRUE, 72, 60, 80)>>),
             TextBlock(<<Span(T_Dense, 1204, FALSE, 72, 100, 720)>>)>>
      [] kind = "notes" ->
           <<TextBlock(<<Span(T_BodyStart, 1196, FALSE, 72, 200, 214),
                         Span(T_BodyEnd, 1204, FALSE, 130, 200, 214)>>),
             TextBlock(<<Span(T_Notes, 1000, FALSE, 72, 300, 310)>>)>>
      [] kind = "es_form" ->
           <<TextBlock(<<Span(T_Formulario, 1200, FALSE, 72, 100, 114)>>),
             TextBlock(<<Span(T_Nombre, 1000, FALSE, 72, 200, 212)>>)>>
      [] kind = "es_report" ->
           <<TextBlock(<<Span(T_Informe, 1800, TRUE, 72, 100, 120)>>),
             TextBlock(<<Span(T_Resumen, 1200, FALSE, 72, 200, 214)>>),
             TextBlock(<<Span(T_Introduccion, 1200, FALSE, 72, 300, 314)>>)>>
      [] kind = "en_form" ->
           <<TextBlock(<<Span(T_ApplicationForm, 1800, TRUE, 72, 100, 120)>>),
             TextBlock(<<Span(T_Applicant, 1200, FALSE, 72, 200, 214)>>)>>
      [] kind = "zh_form" ->
           <<TextBlock(<<Span(T_Shenqingbiao, 1800, TRUE, 72, 100, 120)>>),
             TextBlock(<<Span(T_Cankaowenxian, 1800, TRUE, 72, 200, 220)>>)>>
      [] kind = "ja_form" ->
           <<TextBlock(<<Span(T_Shinseisho, 1800, TRUE, 72, 100, 120)>>)>>
      [] kind = "en_plain" ->
           <<TextBlock(<<Span(T_ProjectOverview, 1800, TRUE, 72, 100, 120)>>),
             TextBlock(<<Span(T_Budget, 1200, FALSE, 72, 200, 214)>>)>>

\* page.get_text() of a page of each kind
PageText(kind) ==
    CASE kind = "body" ->
           <<"P", "l", "a", "i", "n", " ", "b", "o", "d", "y", " ", "t",
             "e", "x", "t", " ", "o", "f", " ", "t", "h", "e", " ", "p",
             "a", "g", "e", ".", "\n">>
      [] kind = "cover" ->
           <<"T", "r", "a", "v", "e", "l", " ", "H", "a", "n", "d", "b",
             "o", "o", "k", "\n", "P", "l", "a", "i", "n", " ", "b", "o",
             "d", "y", " ", "t", "e", "x", "t", " ", "o", "f", " ", "t",
             "h", "e", " ", "p", "a", "g", "e", ".", "\n", "1", "\n">>
      [] kind = "chapter" ->
           <<"T", "r", "a", "v", "e", "l", " ", "H", "a", "n", "d", "b",
             "o", "o", "k", "\n", "O", "v", "e", "r", "v", "i", "e", "w",
             "\n", "P", "l", "a", "i", "n", " ", "b", "o", "d", "y", " ",
             "t", "e", "x", "t", ".", "\n", "\n", "\n", "\n", "G", "e",
             "t", "t", "i", "n", "g", " ", "t", "h", "e", "r", "e", "\n",
             "2", " ", "/", " ", "9", "\n">>
      [] kind = "numbered" ->
           <<"1", ".", " ", "O", "v", "e", "r", "v", "i", "e", "w", "\n",
             "P", "l", "a", "i", "n", " ", "b", "o", "d", "y", " ", "t",
             "e", "x", "t", " ", "o", "f", " ", "t", "h", "e", " ", "p",
             "a", "g", "e", ".", "\n", "N", "O", "T", "E", "S", "\n", "-",
             " ", "p", "a", "c", "k", "i", "n", "g", " ", "i", "t", "e",
             "m", "\n">>
      [] kind = "small" ->
           <<" ", "s", "e", "e", " ", "n", "o", "t", "e", "s", " ", "b",
             "e", "l", "o", "w", " ", "\n", "I", "n", "t", "r", "o", "d",
             "u", "c", "t", "i", "o", "n", "\n", "W", "h", "e", "r", "e",
             " ", "t", "o", " ", "s", "t", "a", "y", "\n">>
      [] kind = "blank" -> <<>>
      [] kind = "dense" -> T_Dense \o <<"\n">>
      [] kind = "colon" -> T_OverviewColon \o <<"\n">> \o T_Body \o <<"\n">>
      [] kind = "headed" -> T_Handbook \o <<"\n">> \o T_Dense \o <<"\n">>
      [] kind = "numhead" -> T_NumOverview \o <<"\n">> \o T_Dense \o <<"\n">>
      [] kind = "notes" -> T_BodyStart \o T_BodyEnd \o <<"\n">> \o T_Notes \o <<"\n">>
      [] kind = "es_form" ->
           <<"F", "O", "R", "M", "U", "L", "A", "R", "I", "O", " ", "D", "E",
             " ", "S", "O", "L", "I", "C", "I", "T", "U", "D", "\n", "N",
             "o", "m", "b", "r", "e", " ", "y", " ", "f", "e", "c", "h", "a",
             "\n">>
      [] kind = "es_report" ->
           <<"I", "n", "f", "o", "r", "m", "e", " ", "a", "n", "u", "a", "l",
             " ", "d", "e", "l", " ", "p", "r", "o", "y", "e", "c", "t", "o",
             "\n", "R", "e", "s", "u", "m", "e", "n", "\n", "I", "n", "t",
             "r", "o", "d", "u", "c", "c", "i", "U+00F3", "n", "\n">>
      [] kind = "en_form" ->
           <<"A", "P", "P", "L", "I", "C", "A", "T", "I", "O", "N", " ", "F",
             "O", "R", "M", " ", "F", "O", "R", " ", "L", "E", "A", "V", "E",
             "\n", "N", "a", "m", "e", " ", "o", "f", " ", "t", "h", "e",
             " ", "a", "p", "p", "l", "i", "c", "a", "n", "t", "\n">>
      [] kind = "zh_form" ->
           <<"U+7533", "U+8BF7", "U+8868", "\n", "U+53C2", "U+8003", "U+6587", "U+732E", "\n">>
      [] kind = "ja_form" ->
           <<"U+7533", "U+8ACB", "U+66F8", "\n">>
      [] kind = "en_plain" ->
           <<"P", "r", "o", "j", "e", "c", "t", " ", "o", "v", "e", "r", "v",
             "i", "e", "w", "\n", "1", ".", "2", " ", "B", "u", "d", "g",
             "e", "t", "\n">>

(***************************************************************************)
(* extract_outline (1b/src/outline_extractor.py)                            *)
(***************************************************************************)
MaxDocPages == 2          \* documents of every page combination up to here
MAX_PAGES == 10           \* max_pages = min(10, len(doc))
FONT_PAGES == 2           \* font sizes are read from the first 2 pages
DEFAULT_BODY_SIZE == 1200 \* body_size = 12.0 when no span was seen

SetMax(S) == CHOOSE x \in S : \A y \in S : y <= x
SetMin(S) == CHOOSE x \in S : \A y \in S : x <= y

\* the aggregates of the span loop, lines 86-101
BlockText(b) == Strip(Join([i \in 1..Len(b.spans) |-> b.spans[i].text], <<>>))
MaxSize(b) == SetMax({0} \cup {b.spans[i].size : i \in 1..Len(b.spans)})
IsBold(b) == \E i \in 1..Len(b.spans) : b.spans[i].bold
MinIndent(b) == SetMin({INF} \cup {b.spans[i].x0 : i \in 1..Len(b.spans)})
MinY(b) == SetMin({INF} \cup {b.spans[i].y0 : i \in 1..Len(b.spans)})
MaxY(b) == SetMax({0} \cup {b.spans[i].y1 : i \in 1..Len(b.spans)})

\* lines 15-43: the title is the boldest, largest, topmost first-page block
\* of 11 to 199 characters; max() returns the first of several maxima
TitleKeyGreater(a, b) ==
    \/ IsBold(a) /\ ~IsBold(b)
    \/ IsBold(a) = IsBold(b) /\ MaxSize(a) > MaxSize(b)
    \/ IsBold(a) = IsBold(b) /\ MaxSize(a) = MaxSize(b) /\ -MinY(a) > -MinY(b)
ExtractTitle(d) ==
    LET title_candidates == SelectSeq(PageBlocks(d[1]), LAMBDA b :
                                b.lines /\ 10 < Len(BlockText(b)) /\ Len(BlockText(b)) < 200)
        best == SelectSeq(title_candidates, LAMBDA b :
                    \A k \in 1..Len(title_candidates) :
                        ~TitleKeyGreater(title_candidates[k], b))[1]
    IN  IF title_candidates = <<>> THEN <<>> ELSE BlockText(best)

\* lines 46-54: the set of span sizes of the first two pages
FontSizes(d) ==
    UNION { UNION { {b.spans[i].size : i \in 1..Len(b.spans)} :
                       b \in {c \in SeqToSet(PageBlocks(d[p])) : c.lines} } :
            p \in 1..Min2(FONT_PAGES, Len(d)) }

\* round(s, 1) on 1/100 pt, for sizes that are not on a half
Round1(s) == ((s + 5) \div 10) * 10

\* lines 57-62: Counter(rounded_sizes).most_common(1)[0][0]; among several
\* most common values the first in the iteration order of the set is taken,
\* here any of them
BodySizeChoices(d) ==
    LET font_sizes == FontSizes(d)
        rounded == {Round1(z) : z \in font_sizes}
        count(r) == Cardinality({z \in font_sizes : Round1(z) = r})
    IN  IF font_sizes = {} THEN {DEFAULT_BODY_SIZE}
        ELSE {r \in rounded : \A q \in rounded : count(q) <= count(r)}

\* str.isupper(): some cased character and no lowercase one
IsUpper(t) ==
    /\ \E i \in 1..Len(t) : t[i] \in UpperSet
    /\ \A i \in 1..Len(t) : t[i] \notin LowerSet
\* sum(c.isalpha() for c in t)
AlphaCount(t) == Cardinality({i \in 1..Len(t) : t[i] \in LowerSet \cup UpperSet})
\* str.startswith
StartsWith(t, prefix) ==
    Len(t) >= Len(prefix) /\ SubSeq(t, 1, Len(prefix)) = prefix
\* part in t
Contains(t, part) ==
    \/ part = <<>>
    \/ \E i \in 1..(Len(t) - Len(part) + 1) :
          t[i] = part[1] /\ SubSeq(t, i, i + Len(part) - 1) = part

\* the last index of the maximal run of C-characters that starts at i,
\* i - 1 when there is none
RunEnd(t, i, C) ==
    IF i > Len(t) THEN i - 1
    ELSE CHOOSE j \in (i - 1)..Len(t) :
             /\ j = Len(t) \/ t[j + 1] \notin C
             /\ \A k \in i..j : t[k] \in C

\* re.match(r"^\d+(\.|:)\s", t)
Numbered(t) ==
    LET b == RunEnd(t, 1, DIGITS)
    IN  b >= 1 /\ b + 2 <= Len(t) /\ t[b + 1] \in {".", ":"} /\ t[b + 2] \in SPACES

\* get_level, lines 66-75
get_level(size, block_text, body) ==
    IF size >= body + 200 THEN "H1"
    ELSE IF size >= body + 100 THEN "H2"
    ELSE IF Numbered(block_text) \/ IsUpper(block_text) THEN "H2"
    ELSE "H3"

STOP_TITLES ==
    { <<"i", "n", "t", "r", "o", "d", "u", "c", "t", "i", "o", "n">>,
      <<"c", "o", "n", "t", "e", "n", "t", "s">>,
      <<"t", "a", "b", "l", "e", " ", "o", "f", " ", "c", "o", "n", "t",
        "e", "n", "t", "s">>,
      <<"i", "n", "d", "e", "x">> }
GENERIC_PHRASES ==
    { <<"c", "o", "m", "p", "r", "e", "h", "e", "n", "s", "i", "v", "e",
        " ", "g", "u", "i", "d", "e">>,
      <<"u", "l", "t", "i", "m", "a", "t", "e", " ", "g", "u", "i", "d", "e">>,
      <<"c", "o", "m", "p", "l", "e", "t", "e", " ", "g", "u", "i", "d", "e">>,
      <<"j", "o", "u", "r", "n", "e", "y", " ", "t", "h", "r", "o", "u",
        "g", "h">>,
      <<"t", "r", "a", "v", "e", "l", " ", "c", "o", "m", "p", "a", "n",
        "i", "o", "n">> }

\* the filters of lines 103-116
SkipBlock(b, height) ==
    LET block_text == BlockText(b)
    IN  \/ Len(block_text) < 3 \/ Len(block_text) > 150
        \/ StartsWith(block_text, <<BULLET>>) \/ StartsWith(block_text, <<"-">>)
        \/ StartsWith(block_text, <<"*">>)
        \/ StrLower(block_text) \in STOP_TITLES
        \/ AlphaCount(block_text) < 2
        \/ /\ Len(block_text) > 80
           /\ \E phrase \in GENERIC_PHRASES : Contains(StrLower(block_text), phrase)
        \/ MinY(b) < 30 \/ MaxY(b) > height - 40

\* is_heading with the size test of the indent rule left out
IsHeadingIndentOnly(block_text, max_size, is_bold, min_indent, body) ==
    \/ max_size >= body + 50 /\ Len(block_text) < 90
    \/ is_bold /\ max_size >= body /\ Len(block_text) < 70
    \/ IsUpper(block_text) /\ Len(block_text) < 50
    \/ Numbered(block_text)
    \/ min_indent < 50 /\ Len(block_text) < 80

\* is_heading, lines 120-126
is_heading(block_text, max_size, is_bold, min_indent, body) ==
    \/ max_size >= body + 50 /\ Len(block_text) < 90
    \/ is_bold /\ max_size >= body /\ Len(block_text) < 70
    \/ IsUpper(block_text) /\ Len(block_text) < 50
    \/ Numbered(block_text)
    \/ min_indent < 50 /\ max_size >= body /\ Len(block_text) < 80

\* lines 129-130: strip a leading numbering "1. ", "A) ", "Note: ", then
\* strip, lower and collapse whitespace
NormTitle(block_text) ==
    LET a == RunEnd(block_text, 1, SPACES)
        b == RunEnd(block_text, a + 1, DIGITS \cup LowerSet \cup UpperSet)
        c == RunEnd(block_text, b + 2, SPACES)
        numbered == /\ b > a /\ b + 1 <= Len(block_text)
                    /\ block_text[b + 1] \in {".", ":", ")"}
                    /\ c >= b + 2
        rest == IF numbered THEN Suffix(block_text, c) ELSE block_text
    IN  CollapseRuns(StrLower(Strip(rest)), SPACES)

\* lines 134-141
HeadingRecord(b, block_text, pn, body) ==
    [title |-> block_text, page_number |-> pn + 1, font_size |-> MaxSize(b),
     bold |-> IsBold(b), level |-> get_level(MaxSize(b), block_text, body),
     indent |-> MinIndent(b)]

\* one iteration of the block loop, lines 83-141; acc is (headings, seen)
ScanBlock(acc, b, pn, height, body) ==
    LET block_text == BlockText(b)
        norm == NormTitle(block_text)
    IN  IF ~b.lines \/ SkipBlock(b, height) THEN acc
        ELSE IF ~is_heading(block_text, MaxSize(b), IsBold(b), MinIndent(b), body) THEN acc
        ELSE IF norm \in acc[2] THEN acc
        ELSE <<Append(acc[1], HeadingRecord(b, block_text, pn, body)),
               acc[2] \cup {norm}>>

\* the block loop over one page from block k on
RECURSIVE ScanBlocks(_, _, _, _, _, _)
ScanBlocks(acc, blocks, k, pn, height, body) ==
    IF k > Len(blocks) THEN acc
    ELSE ScanBlocks(ScanBlock(acc, blocks[k], pn, height, body),
                    blocks, k + 1, pn, height, body)

\* Documents: every page combination up to MaxDocPages pages, a document
\* longer than the page limit whose headings start on its tenth page, and a
\* four-page document without title or headings.
LongDoc ==
    [i \in 1..(MAX_PAGES + 1) |->
        IF i < MAX_PAGES THEN "body" ELSE IF i = MAX_PAGES THEN "numbered" ELSE "chapter"]
PlainDoc == <<"blank", "body", "body", "body">>
DenseDoc == <<"dense", "dense", "dense">>
ColonDoc == <<"chapter", "colon">>
SpanDoc == <<"cover", "body", "body", "body">>
NotesDoc == <<"notes">>
HeadedDoc == <<"headed", "dense", "dense">>
NumHeadDoc == <<"numhead", "dense", "dense">>
Documents ==
    (UNION {[1..n -> PageKinds] : n \in 1..MaxDocPages})
    \cup {LongDoc, PlainDoc, DenseDoc, ColonDoc, SpanDoc, NotesDoc,
          HeadedDoc, NumHeadDoc}

OutlineIdle ==
    /\ ol_pc = "idle" /\ doc = <<>> /\ title = <<>> /\ body_size = 0
    /\ headings = <<>> /\ seen_norm_titles = {} /\ page_num = 0 /\ sections = <<>>
    /\ boosts = <<>>

\* line 7: the document is open; a PDF has at least one page
OutlineOpened ==
    /\ ol_pc = "opened"
    /\ doc \in Documents
    /\ title = <<>> /\ body_size = 0
    /\ headings = <<>> /\ seen_norm_titles = {} /\ page_num = 0 /\ sections = <<>>
    /\ boosts = <<>>

\* lines 15-43
OutlineTitle ==
    /\ ol_pc = "opened"
    /\ title' = ExtractTitle(doc)
    /\ ol_pc' = "titled"
    /\ UNCHANGED <<doc, body_size, headings, seen_norm_titles, page_num, sections, boosts>>
    /\ UNCHANGED ol_others

\* lines 46-63
OutlineBodySize ==
    /\ ol_pc = "titled"
    /\ body_size' \in BodySizeChoices(doc)
    /\ ol_pc' = "scanning"
    /\ UNCHANGED <<doc, title, headings, seen_norm_titles, page_num, sections, boosts>>
    /\ UNCHANGED ol_others

\* one iteration of the page loop, lines 79-141
OutlineScanPage ==
    /\ ol_pc = "scanning"
    /\ page_num < Min2(MAX_PAGES, Len(doc))
    /\ LET acc == ScanBlocks(<<headings, seen_norm_titles>>, PageBlocks(doc[page_num + 1]),
                             1, page_num, PAGE_HEIGHT, body_size)
       IN  /\ headings' = acc[1]
           /\ seen_norm_titles' = acc[2]
    /\ page_num' = page_num + 1
    /\ UNCHANGED <<ol_pc, doc, title, body_size, sections, boosts>>
    /\ UNCHANGED ol_others

\* lines 143-144: the loop is over, {"title", "headings"} is returned
OutlineReturn ==
    /\ ol_pc = "scanning"
    /\ page_num = Min2(MAX_PAGES, Len(doc))
    /\ ol_pc' = "outlined"
    /\ UNCHANGED <<doc, title, body_size, headings, seen_norm_titles, page_num, sections, boosts>>
    /\ UNCHANGED ol_others

(***************************************************************************)
(* extract_sections (1b/src/section_extractor.py)                           *)
(***************************************************************************)
MAX_TEXT == 5000          \* section_text[:5000]
FALLBACK_PAGES == 3       \* range(min(3, len(doc)))

CLEAN_STOP_TITLES ==
    { <<"p", "a", "g", "e">>,
      <<"p", "a", "g", "e", " ", "1">>,
      <<"t", "a", "b", "l", "e", " ", "o", "f", " ", "c", "o", "n", "t",
        "e", "n", "t", "s">>,
      <<"c", "o", "n", "t", "e", "n", "t", "s">>,
      <<"i", "n", "d", "e", "x">>,
      <<"c", "l", "i", "c", "k", " ", "h", "e", "r", "e">>,
      <<"i", "n", "t", "r", "o", "d", "u", "c", "t", "i", "o", "n">> }

\* is_clean_title of section_extractor.py, lines 7-33, for a title on which
\* line 16 does not raise (CleanTitleRaises)
is_clean_title(raw) ==
    LET t == Strip(raw)
        n == Len(t)
        letters == LowerSet \cup UpperSet
        d == RunEnd(t, RunEnd(t, 2, SPACES) + 1, DIGITS)
    IN  ~ \/ n < 3
          \/ StrLower(t) \in CLEAN_STOP_TITLES
          \/ t[1] \in {BULLET, "-", "*", "(", "[", "#"}
          \/ /\ \A i \in 1..3 : t[i] \in DIGITS
             /\ n >= 4 /\ t[4] \in {".", "-", " "}
          \/ AlphaCount(t) < 2
          \/ \A i \in 1..n : t[i] \notin letters
          \/ /\ t[1] \in {"o", BULLET} /\ t[2] \in SPACES
             /\ d > RunEnd(t, 2, SPACES)
          \/ t[n] = "." /\ n < 8
          \/ Len(Split(t)) <= 1 /\ n < 6

\* the matches a regular expression finds when tried at every index: E[i] is
\* the last index of the match starting at i, 0 when there is none; re.sub
\* takes the leftmost match and goes on after its end
RECURSIVE LeftmostMatches(_, _)
LeftmostMatches(E, from) ==
    LET cand == {i \in from..Len(E) : E[i] > 0}
    IN  IF cand = {} THEN {}
        ELSE {SetMin(cand)} \cup LeftmostMatches(E, E[SetMin(cand)] + 1)

\* re.sub(pattern, repl, t) for the pattern whose matches are E
ReSub(t, E, repl) ==
    LET picks == LeftmostMatches(E, 1)
        piece(i) == IF i \in picks THEN repl
                    ELSE IF \E q \in picks : q < i /\ i <= E[q] THEN <<>>
                    ELSE <<t[i]>>
    IN  Join([i \in 1..Len(t) |-> piece(i)], <<>>)

\* r"\n\s*\d+\s*\n": a line holding only a number
PageNumberLines(t) ==
    [i \in 1..Len(t) |->
        IF t[i] # "\n" THEN 0
        ELSE LET a == RunEnd(t, i + 1, SPACES)
                 b == RunEnd(t, a + 1, DIGITS)
                 c == RunEnd(t, b + 1, SPACES)
                 nl == {e \in (b + 1)..c : t[e] = "\n"}
             IN  IF b > a /\ nl # {} THEN SetMax(nl) ELSE 0]

\* r"^\s*\d+\s*/\s*\d+\s*$" with re.MULTILINE: a line like "12 / 34"
PageCountLines(t) ==
    [i \in 1..Len(t) |->
        IF ~(i = 1 \/ t[i - 1] = "\n") THEN 0
        ELSE LET a == RunEnd(t, i, SPACES)
                 b == RunEnd(t, a + 1, DIGITS)
                 c == RunEnd(t, b + 1, SPACES)
                 d == RunEnd(t, c + 2, SPACES)
                 e == RunEnd(t, d + 1, DIGITS)
                 f == RunEnd(t, e + 1, SPACES)
                 ends == {m \in e..f : m = Len(t) \/ t[m + 1] = "\n"}
             IN  IF /\ b > a /\ c + 1 <= Len(t) /\ t[c + 1] = "/"
                    /\ e > d /\ ends # {}
                 THEN SetMax(ends) ELSE 0]

\* r"\s{3,}"
LongSpaces(t) ==
    [i \in 1..Len(t) |->
        IF t[i] \in SPACES /\ RunEnd(t, i, SPACES) >= i + 2
        THEN RunEnd(t, i, SPACES) ELSE 0]

\* r"(\n\s*){3,}"
BlankLines(t) ==
    [i \in 1..Len(t) |->
        IF /\ t[i] = "\n"
           /\ Cardinality({k \in i..RunEnd(t, i, SPACES) : t[k] = "\n"}) >= 3
        THEN RunEnd(t, i, SPACES) ELSE 0]

\* str.splitlines() for the line ends \n, \r and \r\n
SplitLines(t) ==
    LET n == Len(t)
        ends == SelectSeq(Indices(n), LAMBDA i :
                    t[i] = "\n" \/ (t[i] = "\r" /\ (i = n \/ t[i + 1] # "\n")))
        start(k) == IF k = 1 THEN 1 ELSE ends[k - 1] + 1
        stop(k) == IF /\ t[ends[k]] = "\n" /\ ends[k] - 1 >= start(k)
                      /\ t[ends[k] - 1] = "\r"
                   THEN ends[k] - 2 ELSE ends[k] - 1
        full == [k \in 1..Len(ends) |-> SubSeq(t, start(k), stop(k))]
        last == IF ends = <<>> THEN 0 ELSE ends[Len(ends)]
    IN  IF last < n THEN Append(full, SubSeq(t, last + 1, n)) ELSE full

\* line 38
DropPageNumbers(t) == ReSub(t, PageNumberLines(t), <<"\n">>)
\* line 40
DropPageCounts(t) == ReSub(t, PageCountLines(t), <<>>)
\* line 42
StrippedLines(raw_lines) == [k \in 1..Len(raw_lines) |-> Strip(raw_lines[k])]
\* lines 43-47: the lines of 3 to 60 characters that occur three times or more
CommonLines(lines) ==
    {lines[k] : k \in {j \in 1..Len(lines) :
        /\ 3 <= Len(lines[j]) /\ Len(lines[j]) <= 60
        /\ Cardinality({m \in 1..Len(lines) : lines[m] = lines[j]}) >= 3}}
\* lines 48-49
WithoutLines(lines, common) ==
    Join(SelectSeq(lines, LAMBDA l : l \notin common), <<"\n">>)
DropCommonLines(lines) == WithoutLines(lines, CommonLines(lines))
\* line 50
SqueezeSpaces(t) == ReSub(t, LongSpaces(t), <<" ", " ">>)
\* line 51
SqueezeBlankLines(t) == ReSub(t, BlankLines(t), <<"\n", "\n">>)

\* _clean_page_text, lines 35-52
_clean_page_text(text) ==
    Strip(SqueezeBlankLines(SqueezeSpaces(DropCommonLines(StrippedLines(
        SplitLines(DropPageCounts(DropPageNumbers(text))))))))

\* the text of pages [from, to) (0-based, as range(from, to))
PagesText(d, from, to) ==
    Join([k \in 1..(to - from) |-> PageText(d[from + k])], <<>>)

\* the fallback section over every page of the document
FallbackSectionWholeDoc(d, outline_title) ==
    [title |-> IF outline_title = <<>> THEN T_Document ELSE outline_title,
     text |-> PagesText(d, 0, Len(d)),
     page_number |-> 1,
     level |-> None]

\* lines 62-69
FallbackSection(d, outline_title) ==
    [title |-> IF outline_title = <<>> THEN T_Document ELSE outline_title,
     text |-> PagesText(d, 0, Min2(FALLBACK_PAGES, Len(d))),
     page_number |-> 1,
     level |-> None]

\* line 74: sorted by page, then by descending font size
HeadingOrder(hs) ==
    SortedReverse(hs, [h \in SeqToSet(hs) |-> <<-h.page_number, h.font_size>>])

\* the range bounded by the span and the page count only
EndPageSpanOnly(d, sorted, idx) ==
    Min2(Len(d), (sorted[idx].page_number - 1)
                    + (IF sorted[idx].level = "H1" THEN 3 ELSE 2))

\* lines 80-85: the page range [start_page, end_page) of heading idx (1-based)
EndPage(d, sorted, idx) ==
    LET start_page == sorted[idx].page_number - 1
        next_page == IF idx + 1 <= Len(sorted) THEN sorted[idx + 1].page_number - 1
                     ELSE Len(d)
        max_span == IF sorted[idx].level = "H1" THEN 3 ELSE 2
    IN  Min2(next_page, Min2(Len(d), start_page + max_span))

\* lines 87-95
CleanedText(d, sorted, idx) ==
    LET start_page == sorted[idx].page_number - 1
        section_text == PagesText(d, start_page, EndPage(d, sorted, idx))
    IN  _clean_page_text(IF Strip(section_text) = <<>>
                         THEN PageText(d[start_page + 1])
                         ELSE section_text)

\* lines 87-99
SectionText(d, sorted, idx) ==
    LET cleaned == CleanedText(d, sorted, idx)
    IN  IF Len(cleaned) > MAX_TEXT THEN Prefix(cleaned, MAX_TEXT) ELSE cleaned

\* the record of the heading's 0-based start page
SectionOfStartPage(heading, text) ==
    [title |-> heading.title, text |-> Strip(text),
     page_number |-> heading.page_number - 1, level |-> <<heading.level>>]

\* lines 101-106
SectionOf(heading, text) ==
    [title |-> heading.title, text |-> Strip(text),
     page_number |-> heading.page_number, level |-> <<heading.level>>]

\* lines 60-71
SectionsFallback ==
    /\ ol_pc = "outlined"
    /\ headings = <<>>
    /\ sections' = <<FallbackSection(doc, title)>>
    /\ ol_pc' = "done"
    /\ UNCHANGED <<doc, title, body_size, headings, seen_norm_titles, page_num, boosts>>
    /\ UNCHANGED ol_others

\* lines 74-109 without the skip of lines 77-78
SectionsOfAllHeadings ==
    /\ ol_pc = "outlined"
    /\ headings # <<>>
    /\ LET sorted == HeadingOrder(headings)
       IN  sections' = [k \in 1..Len(sorted) |->
                           SectionOf(sorted[k], SectionText(doc, sorted, k))]
    /\ ol_pc' = "done"
    /\ UNCHANGED <<doc, title, body_size, headings, seen_norm_titles, page_num, boosts>>
    /\ UNCHANGED ol_others

\* lines 74-109
SectionsFromHeadings ==
    /\ ol_pc = "outlined"
    /\ headings # <<>>
    /\ LET sorted == HeadingOrder(headings)
           clean == SelectSeq(Indices(Len(sorted)), LAMBDA i :
                        is_clean_title(sorted[i].title))
       IN  sections' = [k \in 1..Len(clean) |->
                           SectionOf(sorted[clean[k]], SectionText(doc, sorted, clean[k]))]
    /\ ol_pc' = "done"
    /\ UNCHANGED <<doc, title, body_size, headings, seen_norm_titles, page_num, boosts>>
    /\ UNCHANGED ol_others

LENGTH_MIN == 250         \* ranker.py line 217
LENGTH_MAX == 5000        \* ranker.py line 217

\* the boost with the upper bound inside the interval
length_boost_closed(text) ==
    IF LENGTH_MIN < Len(text) /\ Len(text) <= LENGTH_MAX THEN 500 ELSE -1000

\* ranker.py lines 216-220, in 1/10000: the bounds belong to the penalty
length_boost(text) ==
    IF LENGTH_MIN < Len(text) /\ Len(text) < LENGTH_MAX THEN 500 ELSE -1000

\* is_clean_title of ranker.py, lines 17-34; a title that reaches line 26 has
\* 5 characters or more
ranker_is_clean_title(raw) ==
    LET t == Strip(raw)
        n == Len(t)
        letters == LowerSet \cup UpperSet
    IN  ~ \/ n < 5
          \/ StrLower(t) \in CLEAN_STOP_TITLES
          \/ t[1] \in {BULLET, "-", "*", "(", "[", "#"}
          \/ /\ \A i \in 1..3 : t[i] \in DIGITS
             /\ t[4] \in {".", "-", " "}
          \/ AlphaCount(t) < 3
          \/ \A i \in 1..n : t[i] \notin letters

\* ranker.py line 222, in 1/10000
title_quality(raw) == IF ranker_is_clean_title(raw) THEN 700 ELSE -700

\* ranker.py lines 205-222 on the sections of the document: the boosts that
\* depend on the section alone
SectionBoosts ==
    /\ ol_pc = "done"
    /\ boosts' = [k \in 1..Len(sections) |->
                     [length_boost |-> length_boost(sections[k].text),
                      title_quality |-> title_quality(sections[k].title)]]
    /\ ol_pc' = "boosted"
    /\ UNCHANGED <<doc, title, body_size, headings, seen_norm_titles, page_num, sections>>
    /\ UNCHANGED ol_others

OutlineNext ==
    \/ OutlineTitle \/ OutlineBodySize \/ OutlineScanPage \/ OutlineReturn
    \/ SectionsFallback \/ SectionsFromHeadings \/ SectionBoosts

(***************************************************************************)
(* PDFOutlineExtractor and process_pdfs (1a/main.py)                        *)
(***************************************************************************)
MaxFiles == 3             \* files in the input directory

\* MULTILINGUAL_PATTERNS, lines 16-116
MULTILINGUAL_PATTERNS ==
    [ spanish |->
        [ form_patterns |->
            <<<<"f", "o", "r", "m", "u", "l", "a", "r", "i", "o", " ", "d",
                "e", " ", "s", "o", "l", "i", "c", "i", "t", "u", "d">>,
              <<"s", "e", "r", "v", "i", "d", "o", "r", " ", "p", "U+00FA",
                "b", "l", "i", "c", "o">>,
              <<"f", "u", "n", "c", "i", "o", "n", "a", "r", "i", "o", " ",
                "g", "u", "b", "e", "r", "n", "a", "m", "e", "n", "t", "a",
                "l">>,
              <<"d", "e", "s", "i", "g", "n", "a", "c", "i", "U+00F3", "n">>,
              <<"s", "e", "r", "v", "i", "c", "i", "o">>,
              <<"s", "a", "l", "a", "r", "i", "o">>,
              <<"p", "e", "r", "m", "a", "n", "e", "n", "t", "e", " ", "o",
                " ", "t", "e", "m", "p", "o", "r", "a", "l">>>>,
          tech_headings |->
            <<<<"h", "i", "s", "t", "o", "r", "i", "a", "l", " ", "d", "e",
                " ", "r", "e", "v", "i", "s", "i", "o", "n", "e", "s">>,
              <<"t", "a", "b", "l", "a", " ", "d", "e", " ", "c", "o", "n",
                "t", "e", "n", "i", "d", "o", "s">>,
              <<"a", "g", "r", "a", "d", "e", "c", "i", "m", "i", "e", "n",
                "t", "o", "s">>,
              <<"i", "n", "t", "r", "o", "d", "u", "c", "c", "i", "U+00F3",
                "n">>,
              <<"r", "e", "f", "e", "r", "e", "n", "c", "i", "a", "s">>,
              <<"m", "a", "r", "c", "a", "s", " ", "c", "o", "m", "e", "r",
                "c", "i", "a", "l", "e", "s">>,
              <<"d", "o", "c", "u", "m", "e", "n", "t", "o", "s">>,
              <<"a", "u", "d", "i", "e", "n", "c", "i", "a", " ", "o", "b",
                "j", "e", "t", "i", "v", "o">>,
              <<"t", "r", "a", "y", "e", "c", "t", "o", "r", "i", "a", "s",
                " ", "p", "r", "o", "f", "e", "s", "i", "o", "n", "a", "l",
                "e", "s">>,
              <<"o", "b", "j", "e", "t", "i", "v", "o", "s", " ", "d", "e",
                " ", "a", "p", "r", "e", "n", "d", "i", "z", "a", "j", "e">>,
              <<"r", "e", "q", "u", "i", "s", "i", "t", "o", "s", " ", "d",
                "e", " ", "e", "n", "t", "r", "a", "d", "a">>,
              <<"e", "s", "t", "r", "u", "c", "t", "u", "r", "a", " ", "y",
                " ", "d", "u", "r", "a", "c", "i", "U+00F3", "n", " ", "d",
                "e", "l", " ", "c", "u", "r", "s", "o">>,
              <<"c", "o", "n", "t", "e", "n", "i", "d", "o">>>>,
          business_headings |->
            <<<<"a", "n", "t", "e", "c", "e", "d", "e", "n", "t", "e", "s">>,
              <<"r", "e", "s", "u", "m", "e", "n">>,
              <<"h", "i", "t", "o", "s">>,
              <<"e", "n", "f", "o", "q", "u", "e">>,
              <<"e", "v", "a", "l", "u", "a", "c", "i", "U+00F3", "n">>,
              <<"a", "p", "U+00E9", "n", "d", "i", "c", "e">>,
              <<"t", "U+00E9", "r", "m", "i", "n", "o", "s", " ", "d", "e",
                " ", "r", "e", "f", "e", "r", "e", "n", "c", "i", "a">>>> ],
      french |->
        [ form_patterns |->
            <<<<"f", "o", "r", "m", "u", "l", "a", "i", "r", "e", " ", "d",
                "e", " ", "d", "e", "m", "a", "n", "d", "e">>,
              <<"f", "o", "n", "c", "t", "i", "o", "n", "n", "a", "i", "r",
                "e">>,
              <<"a", "g", "e", "n", "t", " ", "g", "o", "u", "v", "e", "r",
                "n", "e", "m", "e", "n", "t", "a", "l">>,
              <<"d", "U+00E9", "s", "i", "g", "n", "a", "t", "i", "o", "n">>,
              <<"s", "e", "r", "v", "i", "c", "e">>,
              <<"s", "a", "l", "a", "i", "r", "e">>,
              <<"p", "e", "r", "m", "a", "n", "e", "n", "t", " ", "o", "u",
                " ", "t", "e", "m", "p", "o", "r", "a", "i", "r", "e">>>>,
          tech_headings |->
            <<<<"h", "i", "s", "t", "o", "r", "i", "q", "u", "e", " ", "d",
                "e", "s", " ", "r", "U+00E9", "v", "i", "s", "i", "o", "n",
                "s">>,
              <<"t", "a", "b", "l", "e", " ", "d", "e", "s", " ", "m", "a",
                "t", "i", "U+00E8", "r", "e", "s">>,
              <<"r", "e", "m", "e", "r", "c", "i", "e", "m", "e", "n", "t",
                "s">>,
              <<"i", "n", "t", "r", "o", "d", "u", "c", "t", "i", "o", "n">>,
              <<"r", "U+00E9", "f", "U+00E9", "r", "e", "n", "c", "e", "s">>,
              <<"m", "a", "r", "q", "u", "e", "s", " ", "d", "U+00E9", "p",
                "o", "s", "U+00E9", "e", "s">>,
              <<"d", "o", "c", "u", "m", "e", "n", "t", "s">>,
              <<"p", "u", "b", "l", "i", "c", " ", "c", "i", "b", "l", "e">>,
              <<"p", "a", "r", "c", "o", "u", "r", "s", " ", "p", "r", "o",
                "f", "e", "s", "s", "i", "o", "n", "n", "e", "l", "s">>,
              <<"o", "b", "j", "e", "c", "t", "i", "f", "s", " ", "d", "'",
                "a", "p", "p", "r", "e", "n", "t", "i", "s", "s", "a", "g",
                "e">>,
              <<"c", "o", "n", "d", "i", "t", "i", "o", "n", "s", " ", "d",
                "'", "e", "n", "t", "r", "U+00E9", "e">>,
              <<"s", "t", "r", "u", "c", "t", "u", "r", "e", " ", "e", "t",
                " ", "d", "u", "r", "U+00E9", "e", " ", "d", "u", " ", "c",
                "o", "u", "r", "s">>,
              <<"c", "o", "n", "t", "e", "n", "u">>>>,
          business_headings |->
            <<<<"c", "o", "n", "t", "e", "x", "t", "e">>,
              <<"r", "U+00E9", "s", "u", "m", "U+00E9">>,
              <<"j", "a", "l", "o", "n", "s">>,
              <<"a", "p", "p", "r", "o", "c", "h", "e">>,
              <<"U+00E9", "v", "a", "l", "u", "a", "t", "i", "o", "n">>,
              <<"a", "n", "n", "e", "x", "e">>,
              <<"t", "e", "r", "m", "e", "s", " ", "d", "e", " ", "r",
                "U+00E9", "f", "U+00E9", "r", "e", "n", "c", "e">>>> ],
      german |->
        [ form_patterns |->
            <<<<"a", "n", "t", "r", "a", "g", "s", "f", "o", "r", "m", "u",
                "l", "a", "r">>,
              <<"b", "e", "a", "m", "t", "e", "r">>,
              <<"r", "e", "g", "i", "e", "r", "u", "n", "g", "s", "a", "n",
                "g", "e", "s", "t", "e", "l", "l", "t", "e", "r">>,
              <<"b", "e", "z", "e", "i", "c", "h", "n", "u", "n", "g">>,
              <<"d", "i", "e", "n", "s", "t">>,
              <<"g", "e", "h", "a", "l", "t">>,
              <<"d", "a", "u", "e", "r", "h", "a", "f", "t", " ", "o", "d",
                "e", "r", " ", "v", "o", "r", "U+00FC", "b", "e", "r", "g",
                "e", "h", "e", "n", "d">>>>,
          tech_headings |->
            <<<<"r", "e", "v", "i", "s", "i", "o", "n", "s", "h", "i", "s",
                "t", "o", "r", "i", "e">>,
              <<"i", "n", "h", "a", "l", "t", "s", "v", "e", "r", "z", "e",
                "i", "c", "h", "n", "i", "s">>,
              <<"d", "a", "n", "k", "s", "a", "g", "u", "n", "g", "e", "n">>,
              <<"e", "i", "n", "f", "U+00FC", "h", "r", "u", "n", "g">>,
              <<"r", "e", "f", "e", "r", "e", "n", "z", "e", "n">>,
              <<"w", "a", "r", "e", "n", "z", "e", "i", "c", "h", "e", "n">>,
              <<"d", "o", "k", "u", "m", "e", "n", "t", "e">>,
              <<"z", "i", "e", "l", "g", "r", "u", "p", "p", "e">>,
              <<"k", "a", "r", "r", "i", "e", "r", "e", "w", "e", "g", "e">>,
              <<"l", "e", "r", "n", "z", "i", "e", "l", "e">>,
              <<"e", "i", "n", "g", "a", "n", "g", "s", "v", "o", "r", "a",
                "u", "s", "s", "e", "t", "z", "u", "n", "g", "e", "n">>,
              <<"s", "t", "r", "u", "k", "t", "u", "r", " ", "u", "n", "d",
                " ", "k", "u", "r", "s", "d", "a", "u", "e", "r">>,
              <<"i", "n", "h", "a", "l", "t">>>>,
          business_headings |->
            <<<<"h", "i", "n", "t", "e", "r", "g", "r", "u", "n", "d">>,
              <<"z", "u", "s", "a", "m", "m", "e", "n", "f", "a", "s", "s",
                "u", "n", "g">>,
              <<"m", "e", "i", "l", "e", "n", "s", "t", "e", "i", "n", "e">>,
              <<"a", "n", "s", "a", "t", "z">>,
              <<"b", "e", "w", "e", "r", "t", "u", "n", "g">>,
              <<"a", "n", "h", "a", "n", "g">>,
              <<"r", "e", "f", "e", "r", "e", "n", "z", "b", "e", "d", "i",
                "n", "g", "u", "n", "g", "e", "n">>>> ],
      hindi |->
        [ form_patterns |->
            <<<<"U+0906", "U+0935", "U+0947", "U+0926", "U+0928", " ",
                "U+092A", "U+0924", "U+094D", "U+0930">>,
              <<"U+0938", "U+0930", "U+0915", "U+093E", "U+0930", "U+0940",
                " ", "U+0915", "U+0930", "U+094D", "U+092E", "U+091A",
                "U+093E", "U+0930", "U+0940">>,
              <<"U+0938", "U+0930", "U+0915", "U+093E", "U+0930", "U+0940",
                " ", "U+0905", "U+0927", "U+093F", "U+0915", "U+093E",
                "U+0930", "U+0940">>,
              <<"U+092A", "U+0926", "U+0928", "U+093E", "U+092E">>,
              <<"U+0938", "U+0947", "U+0935", "U+093E">>,
              <<"U+0935", "U+0947", "U+0924", "U+0928">>,
              <<"U+0938", "U+094D", "U+0925", "U+093E", "U+092F", "U+0940",
                " ", "U+092F", "U+093E", " ", "U+0905", "U+0938", "U+094D",
                "U+0925", "U+093E", "U+092F", "U+0940">>>>,
          tech_headings |->
            <<<<"U+0938", "U+0902", "U+0936", "U+094B", "U+0927", "U+0928",
                " ", "U+0907", "U+0924", "U+093F", "U+0939", "U+093E",
                "U+0938">>,
              <<"U+0935", "U+093F", "U+0937", "U+092F", " ", "U+0938",
                "U+0942", "U+091A", "U+0940">>,
              <<"U+0906", "U+092D", "U+093E", "U+0930">>,
              <<"U+092A", "U+0930", "U+093F", "U+091A", "U+092F">>,
              <<"U+0938", "U+0902", "U+0926", "U+0930", "U+094D", "U+092D">>,
              <<"U+091F", "U+094D", "U+0930", "U+0947", "U+0921", "U+092E",
                "U+093E", "U+0930", "U+094D", "U+0915">>,
              <<"U+0926", "U+0938", "U+094D", "U+0924", "U+093E", "U+0935",
                "U+0947", "U+091C">>,
              <<"U+0932", "U+0915", "U+094D", "U+0937", "U+093F", "U+0924",
                " ", "U+0926", "U+0930", "U+094D", "U+0936", "U+0915">>,
              <<"U+0915", "U+0930", "U+093F", "U+092F", "U+0930", " ",
                "U+092A", "U+0925">>,
              <<"U+0938", "U+0940", "U+0916", "U+0928", "U+0947", " ",
                "U+0915", "U+0947", " ", "U+0909", "U+0926", "U+094D",
                "U+0926", "U+0947", "U+0936", "U+094D", "U+092F">>,
              <<"U+092A", "U+094D", "U+0930", "U+0935", "U+0947", "U+0936",
                " ", "U+0906", "U+0935", "U+0936", "U+094D", "U+092F",
                "U+0915", "U+0924", "U+093E", "U+090F", "U+0902">>,
              <<"U+0938", "U+0902", "U+0930", "U+091A", "U+0928", "U+093E",
                " ", "U+0914", "U+0930", " ", "U+092A", "U+093E", "U+0920",
                "U+094D", "U+092F", "U+0915", "U+094D", "U+0930", "U+092E",
                " ", "U+0905", "U+0935", "U+0927", "U+093F">>,
              <<"U+0938", "U+093E", "U+092E", "U+0917", "U+094D", "U+0930",
                "U+0940">>>>,
          business_headings |->
            <<<<"U+092A", "U+0943", "U+0937", "U+094D", "U+0920", "U+092D",
                "U+0942", "U+092E", "U+093F">>,
              <<"U+0938", "U+093E", "U+0930", "U+093E", "U+0902", "U+0936">>,
              <<"U+092E", "U+0940", "U+0932", " ", "U+0915", "U+0947", " ",
                "U+092A", "U+0924", "U+094D", "U+0925", "U+0930">>,
              <<"U+0926", "U+0943", "U+0937", "U+094D", "U+091F", "U+093F",
                "U+0915", "U+094B", "U+0923">>,
              <<"U+092E", "U+0942", "U+0932", "U+094D", "U+092F", "U+093E",
                "U+0902", "U+0915", "U+0928">>,
              <<"U+092A", "U+0930", "U+093F", "U+0936", "U+093F", "U+0937",
                "U+094D", "U+091F">>,
              <<"U+0938", "U+0902", "U+0926", "U+0930", "U+094D", "U+092D",
                " ", "U+0915", "U+0940", " ", "U+0936", "U+0930", "U+094D",
                "U+0924", "U+0947", "U+0902">>>> ],
      chinese |->
        [ form_patterns |->
            <<<<"U+7533", "U+8BF7", "U+8868">>,
              <<"U+516C", "U+52A1", "U+5458">>,
              <<"U+653F", "U+5E9C", "U+5DE5", "U+4F5C", "U+4EBA", "U+5458">>,
              <<"U+804C", "U+52A1">>,
              <<"U+670D", "U+52A1">>,
              <<"U+5DE5", "U+8D44">>,
              <<"U+6C38", "U+4E45", "U+6216", "U+4E34", "U+65F6">>>>,
          tech_headings |->
            <<<<"U+4FEE", "U+8BA2", "U+5386", "U+53F2">>,
              <<"U+76EE", "U+5F55">>,
              <<"U+81F4", "U+8C22">>,
              <<"U+4ECB", "U+7ECD">>,
              <<"U+53C2", "U+8003", "U+6587", "U+732E">>,
              <<"U+5546", "U+6807">>,
              <<"U+6587", "U+6863">>,
              <<"U+76EE", "U+6807", "U+53D7", "U+4F17">>,
              <<"U+804C", "U+4E1A", "U+9053", "U+8DEF">>,
              <<"U+5B66", "U+4E60", "U+76EE", "U+6807">>,
              <<"U+5165", "U+5B66", "U+8981", "U+6C42">>,
              <<"U+7ED3", "U+6784", "U+548C", "U+8BFE", "U+7A0B", "U+6301",
                "U+7EED", "U+65F6", "U+95F4">>,
              <<"U+5185", "U+5BB9">>>>,
          business_headings |->
            <<<<"U+80CC", "U+666F">>,
              <<"U+6458", "U+8981">>,
              <<"U+91CC", "U+7A0B", "U+7891">>,
              <<"U+65B9", "U+6CD5">>,
              <<"U+8BC4", "U+4F30">>,
              <<"U+9644", "U+5F55">>,
              <<"U+53C2", "U+8003", "U+6761", "U+6B3E">>>> ],
      japanese |->
        [ form_patterns |->
            <<<<"U+7533", "U+8ACB", "U+66F8">>,
              <<"U+516C", "U+52D9", "U+54E1">>,
              <<"U+653F", "U+5E9C", "U+8077", "U+54E1">>,
              <<"U+6307", "U+5B9A">>,
              <<"U+30B5", "U+30FC", "U+30D3", "U+30B9">>,
              <<"U+7D66", "U+4E0E">>,
              <<"U+6052", "U+4E45", "U+7684", "U+307E", "U+305F", "U+306F",
                "U+4E00", "U+6642", "U+7684">>>>,
          tech_headings |->
            <<<<"U+6539", "U+8A02", "U+5C65", "U+6B74">>,
              <<"U+76EE", "U+6B21">>,
              <<"U+8B1D", "U+8F9E">>,
              <<"U+7D39", "U+4ECB">>,
              <<"U+53C2", "U+8003", "U+6587", "U+732E">>,
              <<"U+5546", "U+6A19">>,
              <<"U+6587", "U+66F8">>,
              <<"U+5BFE", "U+8C61", "U+8AAD", "U+8005">>,
              <<"U+30AD", "U+30E3", "U+30EA", "U+30A2", "U+30D1", "U+30B9">>,
              <<"U+5B66", "U+7FD2", "U+76EE", "U+6A19">>,
              <<"U+5165", "U+5B66", "U+8981", "U+4EF6">>,
              <<"U+69CB", "U+9020", "U+3068", "U+30B3", "U+30FC", "U+30B9",
                "U+671F", "U+9593">>,
              <<"U+30B3", "U+30F3", "U+30C6", "U+30F3", "U+30C4">>>>,
          business_headings |->
            <<<<"U+80CC", "U+666F">>,
              <<"U+8981", "U+7D04">>,
              <<"U+30DE", "U+30A4", "U+30EB", "U+30B9", "U+30C8", "U+30FC",
                "U+30F3">>,
              <<"U+30A2", "U+30D7", "U+30ED", "U+30FC", "U+30C1">>,
              <<"U+8A55", "U+4FA1">>,
              <<"U+4ED8", "U+9332">>,
              <<"U+53C2", "U+7167", "U+6761", "U+9805">>>> ],
      arabic |->
        [ form_patterns |->
            <<<<"U+0646", "U+0645", "U+0648", "U+0630", "U+062C", " ",
                "U+0637", "U+0644", "U+0628">>,
              <<"U+0645", "U+0648", "U+0638", "U+0641", " ", "U+062D",
                "U+0643", "U+0648", "U+0645", "U+064A">>,
              <<"U+062E", "U+0627", "U+062F", "U+0645", " ", "U+0627",
                "U+0644", "U+062D", "U+0643", "U+0648", "U+0645", "U+0629">>,
              <<"U+062A", "U+0639", "U+064A", "U+064A", "U+0646">>,
              <<"U+062E", "U+062F", "U+0645", "U+0629">>,
              <<"U+0631", "U+0627", "U+062A", "U+0628">>,
              <<"U+062F", "U+0627", "U+0626", "U+0645", " ", "U+0623",
                "U+0648", " ", "U+0645", "U+0624", "U+0642", "U+062A">>>>,
          tech_headings |->
            <<<<"U+062A", "U+0627", "U+0631", "U+064A", "U+062E", " ",
                "U+0627", "U+0644", "U+0645", "U+0631", "U+0627", "U+062C",
                "U+0639", "U+0629">>,
              <<"U+062C", "U+062F", "U+0648", "U+0644", " ", "U+0627",
                "U+0644", "U+0645", "U+062D", "U+062A", "U+0648", "U+064A",
                "U+0627", "U+062A">>,
              <<"U+0634", "U+0643", "U+0631", " ", "U+0648", "U+062A",
                "U+0642", "U+062F", "U+064A", "U+0631">>,
              <<"U+0645", "U+0642", "U+062F", "U+0645", "U+0629">>,
              <<"U+0645", "U+0631", "U+0627", "U+062C", "U+0639">>,
              <<"U+0639", "U+0644", "U+0627", "U+0645", "U+0627", "U+062A",
                " ", "U+062A", "U+062C", "U+0627", "U+0631", "U+064A",
                "U+0629">>,
              <<"U+0648", "U+062B", "U+0627", "U+0626", "U+0642">>,
              <<"U+0627", "U+0644", "U+062C", "U+0645", "U+0647", "U+0648",
                "U+0631", " ", "U+0627", "U+0644", "U+0645", "U+0633",
                "U+062A", "U+0647", "U+062F", "U+0641">>,
              <<"U+0645", "U+0633", "U+0627", "U+0631", "U+0627", "U+062A",
                " ", "U+0645", "U+0647", "U+0646", "U+064A", "U+0629">>,
              <<"U+0623", "U+0647", "U+062F", "U+0627", "U+0641", " ",
                "U+0627", "U+0644", "U+062A", "U+0639", "U+0644", "U+0645">>,
              <<"U+0645", "U+062A", "U+0637", "U+0644", "U+0628", "U+0627",
                "U+062A", " ", "U+0627", "U+0644", "U+062F", "U+062E",
                "U+0648", "U+0644">>,
              <<"U+0627", "U+0644", "U+0647", "U+064A", "U+0643", "U+0644",
                " ", "U+0648", "U+0645", "U+062F", "U+0629", " ", "U+0627",
                "U+0644", "U+062F", "U+0648", "U+0631", "U+0629">>,
              <<"U+0645", "U+062D", "U+062A", "U+0648", "U+0649">>>>,
          business_headings |->
            <<<<"U+062E", "U+0644", "U+0641", "U+064A", "U+0629">>,
              <<"U+0645", "U+0644", "U+062E", "U+0635">>,
              <<"U+0645", "U+0639", "U+0627", "U+0644", "U+0645">>,
              <<"U+0646", "U+0647", "U+062C">>,
              <<"U+062A", "U+0642", "U+064A", "U+064A", "U+0645">>,
              <<"U+0645", "U+0644", "U+062D", "U+0642">>,
              <<"U+0634", "U+0631", "U+0648", "U+0637", " ", "U+0645",
                "U+0631", "U+062C", "U+0639", "U+064A", "U+0629">>>> ] ]

\* The characters of the model's texts and of the pattern table that lie in
\* the script ranges of lines 129-135
HINDI_CHARS ==
    {"U+0902", "U+0905", "U+0906", "U+0907", "U+0909", "U+090F", "U+0914",
     "U+0915", "U+0916", "U+0917", "U+091A", "U+091C", "U+091F", "U+0920",
     "U+0921", "U+0923", "U+0924", "U+0925", "U+0926", "U+0927", "U+0928",
     "U+092A", "U+092D", "U+092E", "U+092F", "U+0930", "U+0932", "U+0935",
     "U+0936", "U+0937", "U+0938", "U+0939", "U+093E", "U+093F", "U+0940",
     "U+0942", "U+0943", "U+0947", "U+094B", "U+094D"}
CHINESE_CHARS ==
    {"U+4E00", "U+4E0E", "U+4E1A", "U+4E34", "U+4E45", "U+4E60", "U+4EBA",
     "U+4ECB", "U+4ED8", "U+4EF6", "U+4F17", "U+4F30", "U+4F5C", "U+4FA1",
     "U+4FEE", "U+5165", "U+516C", "U+5185", "U+52A1", "U+52D9", "U+5386",
     "U+53C2", "U+53D7", "U+53F2", "U+5458", "U+548C", "U+54E1", "U+5546",
     "U+5B66", "U+5B9A", "U+5BB9", "U+5BFE", "U+5C65", "U+5DE5", "U+5E9C",
     "U+5F55", "U+6052", "U+6216", "U+6301", "U+6307", "U+6458", "U+6539",
     "U+653F", "U+6587", "U+65B9", "U+65F6", "U+6642", "U+666F", "U+66F8",
     "U+670D", "U+671F", "U+6761", "U+6784", "U+6807", "U+6863", "U+69CB",
     "U+6A19", "U+6B21", "U+6B3E", "U+6B74", "U+6C38", "U+6C42", "U+6CD5",
     "U+7167", "U+732E", "U+7533", "U+7684", "U+76EE", "U+7891", "U+7A0B",
     "U+7D04", "U+7D39", "U+7D66", "U+7ECD", "U+7ED3", "U+7EED", "U+7FD2",
     "U+8003", "U+8005", "U+804C", "U+8077", "U+80CC", "U+81F4", "U+8868",
     "U+8981", "U+8A02", "U+8A55", "U+8AAD", "U+8ACB", "U+8B1D", "U+8BA2",
     "U+8BC4", "U+8BF7", "U+8BFE", "U+8C22", "U+8C61", "U+8D44", "U+8DEF",
     "U+8F9E", "U+9020", "U+9053", "U+91CC", "U+9332", "U+9593", "U+95F4",
     "U+9644", "U+9805"}
JAPANESE_CHARS ==
    {"U+305F", "U+3068", "U+306F", "U+307E", "U+30A2", "U+30A4", "U+30AD",
     "U+30B3", "U+30B5", "U+30B9", "U+30C1", "U+30C4", "U+30C6", "U+30C8",
     "U+30D1", "U+30D3", "U+30D7", "U+30DE", "U+30E3", "U+30EA", "U+30EB",
     "U+30ED", "U+30F3", "U+30FC"}
ARABIC_CHARS ==
    {"U+0623", "U+0624", "U+0626", "U+0627", "U+0628", "U+0629", "U+062A",
     "U+062B", "U+062C", "U+062D", "U+062E", "U+062F", "U+0630", "U+0631",
     "U+0633", "U+0634", "U+0635", "U+0637", "U+0638", "U+0639", "U+0641",
     "U+0642", "U+0643", "U+0644", "U+0645", "U+0646", "U+0647", "U+0648",
     "U+0649", "U+064A"}
\* the character classes of lines 153, 155 and 157
FRENCH_HINTS ==
    {"U+00E0", "U+00E1", "U+00E2", "U+00E3", "U+00E4", "U+00E5", "U+00E6",
     "U+00E7", "U+00E8", "U+00E9", "U+00EA", "U+00EB", "U+00EC", "U+00ED",
     "U+00EE", "U+00EF", "U+00F0", "U+00F1", "U+00F2", "U+00F3", "U+00F4",
     "U+00F5", "U+00F6", "U+00F8", "U+00F9", "U+00FA", "U+00FB", "U+00FC",
     "U+00FD", "U+00FE", "U+00FF"}
GERMAN_HINTS ==
    {"U+00E4", "U+00F6", "U+00FC", "U+00DF", "U+00C4", "U+00D6", "U+00DC"}
SPANISH_HINTS ==
    {"U+00F1", "U+00E1", "U+00E9", "U+00ED", "U+00F3", "U+00FA", "U+00FC",
     "U+00D1", "U+00C1", "U+00C9", "U+00CD", "U+00D3", "U+00DA", "U+00DC"}

HasChar(text, C) == \E i \in 1..Len(text) : text[i] \in C

\* lines 141-150: the number of patterns of the language found in the text
PatternHits(doc_text_lower, lang) ==
    LET patterns == MULTILINGUAL_PATTERNS[lang]
        hits(list) == Cardinality({i \in 1..Len(list) : Contains(doc_text_lower, list[i])})
    IN  hits(patterns.form_patterns) + hits(patterns.tech_headings)
            + hits(patterns.business_headings)

\* lines 139-158
LanguageScore(doc_text, lang) ==
    PatternHits(StrLower(doc_text), lang)
        + (IF lang = "french" /\ HasChar(doc_text, FRENCH_HINTS) THEN 2 ELSE 0)
        + (IF lang = "german" /\ HasChar(doc_text, GERMAN_HINTS) THEN 2 ELSE 0)
        + (IF lang = "spanish" /\ HasChar(doc_text, SPANISH_HINTS) THEN 2 ELSE 0)

\* _detect_non_english_language, lines 124-165; max() returns the first of
\* several best languages in the order spanish, french, german
_detect_non_english_language(doc_text) ==
    IF HasChar(doc_text, HINDI_CHARS) THEN <<"hindi">>
    ELSE IF HasChar(doc_text, CHINESE_CHARS) THEN <<"chinese">>
    ELSE IF HasChar(doc_text, JAPANESE_CHARS) THEN <<"japanese">>
    ELSE IF HasChar(doc_text, ARABIC_CHARS) THEN <<"arabic">>
    ELSE LET european == <<"spanish", "french", "german">>
             language_scores == [i \in 1..3 |-> LanguageScore(doc_text, european[i])]
             best == SelectSeq(Indices(3), LAMBDA i :
                         \A j \in 1..3 : language_scores[j] <= language_scores[i])[1]
         IN  IF language_scores[best] > 1 THEN <<european[best]>> ELSE None

\* lines 172-174 and 249-251: the text of the first three pages
SampleText(d) == PagesText(d, 0, Min2(3, Len(d)))

\* line 255 and lines 259-261 with the English check only
IsFormDocumentEnglishOnly(doc_text_lower, patterns) ==
    \/ Contains(doc_text_lower, <<"a", "p", "p", "l", "i", "c", "a", "t", "i",
                                "o", "n", " ", "f", "o", "r", "m">>)
    \/ Contains(doc_text_lower, <<"g", "o", "v", "e", "r", "n", "m", "e", "n",
                                "t", " ", "s", "e", "r", "v", "a", "n", "t">>)

\* lines 255-261: the form short-circuit of _extract_headings
IsFormDocument(doc_text_lower, patterns) ==
    \/ Contains(doc_text_lower, <<"a", "p", "p", "l", "i", "c", "a", "t", "i",
                                "o", "n", " ", "f", "o", "r", "m">>)
    \/ Contains(doc_text_lower, <<"g", "o", "v", "e", "r", "n", "m", "e", "n",
                                "t", " ", "s", "e", "r", "v", "a", "n", "t">>)
    \/ /\ patterns # None
       /\ \E i \in 1..7 : Contains(doc_text_lower,
                              MULTILINGUAL_PATTERNS[patterns[1]].form_patterns[i])

\* lines 231-241
TitleScore(b) ==
    (IF IsBold(b) THEN 3 ELSE 0)
        + (IF MaxSize(b) > 1600 THEN 2 ELSE IF MaxSize(b) > 1400 THEN 1 ELSE 0)
        + (IF MinY(b) < 200 THEN 2 ELSE 0)

\* _extract_title, lines 194-244
_extract_title(d) ==
    LET candidates == SelectSeq(PageBlocks(d[1]), LAMBDA b :
                          b.lines /\ Len(BlockText(b)) > 10 /\ Len(BlockText(b)) < 200)
        best_candidate == SelectSeq(candidates, LAMBDA b :
                              \A k \in 1..Len(candidates) :
                                  TitleScore(candidates[k]) <= TitleScore(b))[1]
    IN  IF Len(d) = 0 \/ candidates = <<>> THEN <<>>
        ELSE IF TitleScore(best_candidate) > 2 THEN BlockText(best_candidate)
        ELSE <<>>

ContainsAny(text, phrases) == \E ph \in phrases : Contains(text, ph)

\* an optional character of class C at index i: the index after it
Opt(t, i, C) == IF i <= Len(t) /\ t[i] \in C THEN i ELSE i - 1
LETTERS == LowerSet \cup UpperSet

GARBAGE_PATTERNS ==
    { Repeat(<<".">>, 41),
      <<"w", "w", "w", ".">>,
      <<".", "c", "o", "m">>,
      <<".", "o", "r", "g">> }
ENGLISH_FORM_PATTERNS ==
    { <<"n", "a", "m", "e", " ", "o", "f", " ", "t", "h", "e", " ", "g", "o",
        "v", "e", "r", "n", "m", "e", "n", "t", " ", "s", "e", "r", "v", "a",
        "n", "t">>,
      <<"d", "e", "s", "i", "g", "n", "a", "t", "i", "o", "n">>,
      <<"s", "e", "r", "v", "i", "c", "e">>,
      <<"p", "a", "y", " ", "+", " ", "s", "i", " ", "+", " ", "n", "p", "a">>,
      <<"w", "h", "e", "t", "h", "e", "r", " ", "p", "e", "r", "m", "a", "n",
        "e", "n", "t", " ", "o", "r", " ", "t", "e", "m", "p", "o", "r", "a",
        "r", "y">>,
      <<"h", "o", "m", "e", " ", "t", "o", "w", "n", " ", "a", "s", " ", "r",
        "e", "c", "o", "r", "d", "e", "d">>,
      <<"a", "m", "o", "u", "n", "t", " ", "o", "f", " ", "a", "d", "v", "a",
        "n", "c", "e", " ", "r", "e", "q", "u", "i", "r", "e", "d">> }

\* r'^\$?\d+[MKB]?\$?\d+[MKB]?$'
IsAmount(t) ==
    LET n == Len(t)
        p == Opt(t, 1, {"$"})
        b == RunEnd(t, p + 1, DIGITS)
        m == Opt(t, b + 1, {"M", "K", "B"})
        q == Opt(t, m + 1, {"$"})
        e == RunEnd(t, q + 1, DIGITS)
    IN  /\ b > p
        /\ \/ b >= p + 2 /\ m = n
           \/ e > q /\ Opt(t, e + 1, {"M", "K", "B"}) = n

\* _is_obviously_not_heading, lines 306-350
_is_obviously_not_heading(text, patterns) ==
    LET n == Len(text)
        lower == StrLower(text)
        b == RunEnd(text, 1, DIGITS)
        d == RunEnd(text, b + 2, DIGITS)
        caps == RunEnd(text, 1, UpperSet \cup SPACES)
        amount == RunEnd(text, caps + 2, DIGITS)
    IN  \/ n < 3 \/ n > 200
        \/ ContainsAny(text, GARBAGE_PATTERNS)
        \/ ContainsAny(lower, ENGLISH_FORM_PATTERNS)
        \/ /\ patterns # None
           /\ \E i \in 1..7 : Contains(lower, MULTILINGUAL_PATTERNS[patterns[1]].form_patterns[i])
        \/ /\ StartsWith(text, <<"R", "F", "P", ":">>) /\ n >= 8
           /\ \A i \in (n - 3)..n : text[i] \in DIGITS
           /\ \A i \in 5..(n - 4) : text[i] # "\n"
        \/ b = n
        \/ n > 100 /\ HasChar(text, {".", ",", ";", ":"})
        \/ text[1] \in {BULLET, "-", "*"}
        \/ /\ b >= 1 /\ b + 1 <= n /\ lower[b + 1] = "."
           /\ RunEnd(lower, b + 2, SPACES) + 1 <= n
           /\ lower[RunEnd(lower, b + 2, SPACES) + 1] \in LowerSet
        \/ /\ b >= 1 /\ b + 1 <= n /\ text[b + 1] = "." /\ d > b + 1
           /\ RunEnd(text, d + 1, SPACES) + 1 <= n
           /\ text[RunEnd(text, d + 1, SPACES) + 1] \in LETTERS
        \/ IsAmount(text)
        \/ /\ caps >= 1 /\ caps + 1 <= n /\ text[caps + 1] = "$"
           /\ amount > caps + 1 /\ amount + 1 <= n
           /\ text[amount + 1] \in {"M", "K", "B"}

ENGLISH_TECH_HEADINGS ==
    { <<"r", "e", "v", "i", "s", "i", "o", "n", " ", "h", "i", "s", "t", "o",
        "r", "y">>,
      <<"t", "a", "b", "l", "e", " ", "o", "f", " ", "c", "o", "n", "t", "e",
        "n", "t", "s">>,
      <<"a", "c", "k", "n", "o", "w", "l", "e", "d", "g", "e", "m", "e", "n",
        "t", "s">>,
      <<"i", "n", "t", "r", "o", "d", "u", "c", "t", "i", "o", "n">>,
      <<"r", "e", "f", "e", "r", "e", "n", "c", "e", "s">>,
      <<"t", "r", "a", "d", "e", "m", "a", "r", "k", "s">>,
      <<"d", "o", "c", "u", "m", "e", "n", "t", "s">>,
      <<"i", "n", "t", "e", "n", "d", "e", "d", " ", "a", "u", "d", "i", "e",
        "n", "c", "e">>,
      <<"c", "a", "r", "e", "e", "r", " ", "p", "a", "t", "h", "s">>,
      <<"l", "e", "a", "r", "n", "i", "n", "g", " ", "o", "b", "j", "e", "c",
        "t", "i", "v", "e", "s">>,
      <<"e", "n", "t", "r", "y", " ", "r", "e", "q", "u", "i", "r", "e", "m",
        "e", "n", "t", "s">>,
      <<"s", "t", "r", "u", "c", "t", "u", "r", "e", " ", "a", "n", "d", " ",
        "c", "o", "u", "r", "s", "e", " ", "d", "u", "r", "a", "t", "i", "o",
        "n">>,
      <<"k", "e", "e", "p", "i", "n", "g", " ", "i", "t", " ", "c", "u", "r",
        "r", "e", "n", "t">>,
      <<"b", "u", "s", "i", "n", "e", "s", "s", " ", "o", "u", "t", "c", "o",
        "m", "e", "s">>,
      <<"c", "o", "n", "t", "e", "n", "t">> }
ENGLISH_BUSINESS_HEADINGS ==
    { <<"b", "a", "c", "k", "g", "r", "o", "u", "n", "d">>,
      <<"s", "u", "m", "m", "a", "r", "y">>,
      <<"m", "i", "l", "e", "s", "t", "o", "n", "e", "s">>,
      <<"a", "p", "p", "r", "o", "a", "c", "h">>,
      <<"e", "v", "a", "l", "u", "a", "t", "i", "o", "n">>,
      <<"a", "p", "p", "e", "n", "d", "i", "x">>,
      <<"t", "e", "r", "m", "s", " ", "o", "f", " ", "r", "e", "f", "e", "r",
        "e", "n", "c", "e">> }

\* _is_likely_heading, lines 352-400; sizes in 1/100 pt
_is_likely_heading(text, size, is_bold, doc_text_lower, patterns) ==
    LET n == Len(text)
        lower == StrLower(text)
        b == RunEnd(text, 1, DIGITS)
        d == RunEnd(text, b + 2, DIGITS)
        c == RunEnd(text, d + 1, SPACES)
    IN  \/ /\ b >= 1 /\ b + 1 <= n /\ text[b + 1] = "."
           /\ c > d /\ c + 1 <= n /\ text[c + 1] \in LETTERS
        \/ IsUpper(text) /\ n > 5
        \/ is_bold /\ size > 1400
        \/ size > 1600
        \/ /\ patterns # None
           /\ \/ \E i \in 1..13 : Contains(lower, MULTILINGUAL_PATTERNS[patterns[1]].tech_headings[i])
              \/ \E i \in 1..7 : Contains(lower, MULTILINGUAL_PATTERNS[patterns[1]].business_headings[i])
        \/ IF Contains(doc_text_lower, <<"f", "o", "u", "n", "d", "a", "t", "i", "o",
                                "n", " ", "l", "e", "v", "e", "l">>)
           THEN ContainsAny(lower, ENGLISH_TECH_HEADINGS)
           ELSE IF \/ Contains(doc_text_lower, <<"r", "f", "p">>)
                   \/ Contains(doc_text_lower, <<"d", "i", "g", "i", "t", "a", "l", " ", "l",
                                "i", "b", "r", "a", "r", "y">>)
           THEN ContainsAny(lower, ENGLISH_BUSINESS_HEADINGS)
           ELSE IF \/ Contains(doc_text_lower, <<"p", "a", "t", "h", "w", "a", "y", " ", "o",
                                "p", "t", "i", "o", "n", "s">>)
                   \/ Contains(doc_text_lower, <<"s", "t", "e", "m", " ", "p", "a", "t", "h",
                                "w", "a", "y", "s">>)
           THEN Contains(lower, <<"p", "a", "t", "h", "w", "a", "y", " ", "o",
                                "p", "t", "i", "o", "n", "s">>)
           ELSE IF \/ Contains(doc_text_lower, <<"h", "o", "p", "e", " ", "t", "o", " ", "s",
                                "e", "e", " ", "y", "o", "u">>)
                   \/ Contains(doc_text_lower, <<"r", "s", "v", "p">>)
           THEN Contains(lower, <<"h", "o", "p", "e", " ", "t", "o", " ", "s",
                                "e", "e", " ", "y", "o", "u", " ", "t", "h",
                                "e", "r", "e">>)
           ELSE FALSE

\* _extract_headings_from_page, lines 270-304; page_num is 0-based
_extract_headings_from_page(kind, pn, doc_text_lower, patterns) ==
    LET found == SelectSeq(PageBlocks(kind), LAMBDA b :
                     /\ b.lines
                     /\ Len(BlockText(b)) >= 3 /\ Len(BlockText(b)) <= 200
                     /\ ~_is_obviously_not_heading(BlockText(b), patterns)
                     /\ _is_likely_heading(BlockText(b), MaxSize(b), IsBold(b),
                                           doc_text_lower, patterns))
    IN  [k \in 1..Len(found) |->
            [text |-> BlockText(found[k]), size |-> MaxSize(found[k]),
             bold |-> IsBold(found[k]), page |-> pn]]

\* lines 263-266
AllHeadings(d, doc_text_lower, patterns) ==
    Join([k \in 1..Len(d) |->
             _extract_headings_from_page(d[k], k - 1, doc_text_lower, patterns)], <<>>)

\* lines 434-444: the level the language pack gives
MultilingualLevel(text, patterns) ==
    LET pack == MULTILINGUAL_PATTERNS[patterns[1]]
        any(list, from, to) == \E i \in from..to : Contains(text, list[i])
    IN  IF patterns = None THEN "H3"
        ELSE IF any(pack.business_headings, 1, 4) THEN "H1"
        ELSE IF any(pack.tech_headings, 1, 6) THEN "H1"
        ELSE IF any(pack.business_headings, 5, 7) THEN "H2"
        ELSE IF any(pack.tech_headings, 7, 13) THEN "H2"
        ELSE "H3"

\* lines 429-461: the assignments of lines 447-461 overwrite the level of
\* lines 434-444 in every case
HeadingLevel(heading, doc_text_lower, patterns) ==
    LET text == StrLower(heading.text)
        level == MultilingualLevel(text, patterns)
    IN  IF \/ Contains(doc_text_lower, <<"r", "f", "p">>)
           \/ Contains(doc_text_lower, <<"d", "i", "g", "i", "t", "a", "l", " ", "l",
                                "i", "b", "r", "a", "r", "y">>)
        THEN IF ContainsAny(text, { <<"s", "u", "m", "m", "a", "r", "y">>, <<"b", "a", "c", "k", "g", "r", "o", "u",
                                      "n", "d">>, <<"m", "i", "l", "e", "s", "t", "o", "n",
                                      "e", "s">>,
                                    <<"a", "p", "p", "r", "o", "a", "c", "h">>, <<"e", "v", "a", "l", "u", "a", "t", "i",
                                      "o", "n">> })
             THEN "H1"
             ELSE IF ContainsAny(text, { <<"a", "p", "p", "e", "n", "d", "i", "x">>, <<"t", "e", "r", "m", "s", " ", "o", "f",
                                      " ", "r", "e", "f", "e", "r", "e", "n",
                                      "c", "e">>, <<"m", "e", "m", "b", "e", "r", "s", "h",
                                      "i", "p">> })
             THEN "H2"
             ELSE "H3"
        ELSE IF heading.size > 1600 THEN "H1"
        ELSE IF heading.size > 1400 THEN "H2"
        ELSE "H3"

\* the first heading whose text holds the phrase as a one-element list, or []
FirstWith(unique_headings, phrase) ==
    LET hit == SelectSeq(unique_headings, LAMBDA h : Contains(StrLower(h.text), phrase))
    IN  IF hit = <<>> THEN <<>>
        ELSE <<[level |-> "H1", text |-> hit[1].text, page |-> 0]>>

\* lines 406-412
UniqueHeadings(hs) ==
    LET first == SelectSeq(Indices(Len(hs)), LAMBDA i :
                     \A j \in 1..(i - 1) : Strip(hs[j].text) # Strip(hs[i].text))
    IN  [k \in 1..Len(first) |-> hs[first[k]]]

\* lines 428-466
LevelledHeadings(unique_headings, doc_text_lower, patterns) ==
    LET result == [k \in 1..Len(unique_headings) |->
                      [level |-> HeadingLevel(unique_headings[k], doc_text_lower, patterns),
                       text |-> unique_headings[k].text,
                       page |-> unique_headings[k].page]]
    IN  SortedReverse(result, [h \in SeqToSet(result) |-> <<-h.page, 0>>])

\* _filter_headings, lines 402-466
_filter_headings(hs, doc_text_lower, patterns) ==
    IF hs = <<>> THEN <<>>
    ELSE IF \/ Contains(doc_text_lower, <<"p", "a", "t", "h", "w", "a", "y", " ", "o",
                                "p", "t", "i", "o", "n", "s">>)
            \/ Contains(doc_text_lower, <<"s", "t", "e", "m", " ", "p", "a", "t", "h",
                                "w", "a", "y", "s">>)
    THEN FirstWith(UniqueHeadings(hs), <<"p", "a", "t", "h", "w", "a", "y", " ", "o",
                                "p", "t", "i", "o", "n", "s">>)
    ELSE IF \/ Contains(doc_text_lower, <<"h", "o", "p", "e", " ", "t", "o", " ", "s",
                                "e", "e", " ", "y", "o", "u">>)
            \/ Contains(doc_text_lower, <<"r", "s", "v", "p">>)
    THEN FirstWith(UniqueHeadings(hs), <<"h", "o", "p", "e", " ", "t", "o", " ", "s",
                                "e", "e", " ", "y", "o", "u", " ", "t", "h",
                                "e", "r", "e">>)
    ELSE LevelledHeadings(UniqueHeadings(hs), doc_text_lower, patterns)

\* lines 185-189
Result(result_title, outline, language) ==
    [title |-> result_title, outline |-> outline, detected_language |-> language]

\* The documents of the input directory: one page each
FormDocuments == {<<kind>> : kind \in FormPageKinds}

ExtractorIdle ==
    /\ ex_pc = "idle" /\ detected_language = None /\ multilingual_patterns = None
    /\ pdf_files = <<>> /\ pdf_i = 0 /\ ex_title = <<>> /\ results = <<>>

\* lines 474-477: a new extractor and the files to process
ExtractorCreated ==
    /\ ex_pc = "open"
    /\ detected_language = None /\ multilingual_patterns = None
    /\ pdf_files \in UNION {[1..n -> FormDocuments] : n \in 1..MaxFiles}
    /\ pdf_i = 0 /\ ex_title = <<>> /\ results = <<>>

\* lines 169-179: the language of the next file is detected; the pattern
\* pack is replaced only when a language was detected
DetectLanguage ==
    /\ ex_pc = "open"
    /\ pdf_i < Len(pdf_files)
    /\ LET language == _detect_non_english_language(SampleText(pdf_files[pdf_i + 1]))
       IN  /\ detected_language' = language
           /\ multilingual_patterns' =
                 IF language # None THEN language ELSE multilingual_patterns
    /\ ex_pc' = "detected"
    /\ UNCHANGED <<pdf_files, pdf_i, ex_title, results>>
    /\ UNCHANGED ex_others

\* line 181
ExtractTitleStep ==
    /\ ex_pc = "detected"
    /\ ex_title' = _extract_title(pdf_files[pdf_i + 1])
    /\ ex_pc' = "titled"
    /\ UNCHANGED <<detected_language, multilingual_patterns, pdf_files, pdf_i, results>>
    /\ UNCHANGED ex_others

\* lines 249-261 and 183-189, then lines 488-493: a form document
HeadingsOfForm ==
    /\ ex_pc = "titled"
    /\ IsFormDocument(StrLower(SampleText(pdf_files[pdf_i + 1])), multilingual_patterns)
    /\ results' = Append(results, Result(ex_title, <<>>, detected_language))
    /\ pdf_i' = pdf_i + 1
    /\ ex_pc' = "open"
    /\ UNCHANGED <<detected_language, multilingual_patterns, pdf_files, ex_title>>
    /\ UNCHANGED ex_others

\* lines 249-268 and 183-189, then lines 488-493: any other document
HeadingsOfPages ==
    /\ ex_pc = "titled"
    /\ LET d == pdf_files[pdf_i + 1]
           doc_text_lower == StrLower(SampleText(d))
       IN  /\ ~IsFormDocument(doc_text_lower, multilingual_patterns)
           /\ results' = Append(results,
                 Result(ex_title,
                        _filter_headings(AllHeadings(d, doc_text_lower, multilingual_patterns),
                                         doc_text_lower, multilingual_patterns),
                        detected_language))
    /\ pdf_i' = pdf_i + 1
    /\ ex_pc' = "open"
    /\ UNCHANGED <<detected_language, multilingual_patterns, pdf_files, ex_title>>
    /\ UNCHANGED ex_others

ExtractorNext ==
    DetectLanguage \/ ExtractTitleStep \/ HeadingsOfForm \/ HeadingsOfPages

(***************************************************************************)
(* rank_sections: candidate order, cross-encoder rerank, MMR selection      *)
(***************************************************************************)
MaxSections == 3          \* longest freely chosen section list
MaxTopN == 2              \* largest TOP_N
POOL_MIN == 10            \* max(10, top_n * 3)
POOL_FACTOR == 3
DIVERSITY_DEFAULT == 30   \* os.getenv('DIVERSITY', '0.3')

ScoreVals == {2000, 5000, 8000}
SimVals == {-50, 0, 100}
CeVals == {0, 1}
DiversityVals == {0, DIVERSITY_DEFAULT}

\* Section lists handed to the ordering stage, as id -> score: every short
\* list, and one list longer than the minimum rerank pool.
LongLen == POOL_MIN + 1
ScoreInputs ==
    UNION {[1..n -> ScoreVals] : n \in 1..MaxSections}
    \cup {[i \in 1..LongLen |-> 2000 + 3000 * (i % 3)]}

\* the sections in the order given, not sorted
OrderAsGiven(sc) == [i \in 1..Len(sc) |-> i]
\* line 272: ordered = sorted(sections, key=score, reverse=True)
OrderByScore(sc) ==
    SortedReverse([i \in 1..Len(sc) |-> i], [x \in DOMAIN sc |-> <<sc[x], 0>>])

\* line 276: top_pool = ordered[: min(len(ordered), max(10, top_n * 3))]
PoolSize(ord, n) == Min2(Len(ord), Max2(POOL_MIN, n * POOL_FACTOR))

\* The cross-encoder's predict(pairs): one float per pair, any values.
CePredictions(k) ==
    IF k <= MaxSections
    THEN [1..k -> CeVals]
    ELSE {[i \in 1..k |-> 0], [i \in 1..k |-> i % 2], [i \in 1..k |-> i]}

\* x.get('_ce', 0.0)
CeOf(id, cef) == IF cef[id] # None THEN cef[id][1] ELSE 0

\* line 282: sorted(top_pool, key=(_ce, score), reverse=True) + ordered[len(top_pool):]
Rerank(ord, k, cef, sc) ==
    SortedReverse(Prefix(ord, k), [x \in DOMAIN sc |-> <<CeOf(x, cef), sc[x]>>])
    \o Suffix(ord, k)

\* selected[j].get('_mmr', selected[j]['score'])
Retained(id, mm, sc) == IF mm[id] # None THEN mm[id][1] ELSE sc[id]

\* line 313: min(range(len(selected)), key=...) -- the first index of a minimum
WorstIdxLast(sel, mm, sc) == Len(sel)
WorstIdx(sel, mm, sc) ==
    CHOOSE j \in 1..Len(sel) :
        /\ \A k \in 1..Len(sel) : Retained(sel[j], mm, sc) <= Retained(sel[k], mm, sc)
        /\ \A k \in 1..(j - 1) : Retained(sel[k], mm, sc) > Retained(sel[j], mm, sc)

\* line 311: mmr_score = candidate['score'] - diversity * sim_to_selected
MmrScore(s, div, sim) == s - div * sim

RankIdle ==
    /\ rk_pc = "idle" /\ score = <<>> /\ ce = <<>> /\ mmr = <<>>
    /\ ranks_cross = "none" /\ top_n = 0 /\ diversity = 0 /\ ordered = <<>>
    /\ selected = <<>> /\ selected_idx = <<>> /\ rk_i = 0 /\ ranked = <<>>

\* State on entry to line 272: stage 2 has scored every section.
RankInit ==
    /\ rk_pc = "scored"
    /\ score \in ScoreInputs
    /\ ce = [i \in DOMAIN score |-> None]
    /\ mmr = [i \in DOMAIN score |-> None]
    /\ ranks_cross \in {"none", "ok", "raises"}
    /\ top_n \in 0..MaxTopN
    /\ diversity \in DiversityVals
    /\ ordered = <<>> /\ selected = <<>> /\ selected_idx = <<>>
    /\ rk_i = 0 /\ ranked = <<>>

\* line 272
SortByScore ==
    /\ rk_pc = "scored"
    /\ ordered' = OrderByScore(score)
    /\ rk_pc' = "ordered"
    /\ UNCHANGED <<score, ce, mmr, ranks_cross, top_n, diversity, selected,
                   selected_idx, rk_i, ranked>>
    /\ UNCHANGED rk_others

\* lines 275-282, predict succeeds
CrossEncoderRerank ==
    /\ rk_pc = "ordered"
    /\ ranks_cross = "ok" /\ ordered # <<>>
    /\ LET k == PoolSize(ordered, top_n) IN
       \E p \in CePredictions(k) :
          LET cef == [id \in DOMAIN score |->
                         IF \E q \in 1..k : ordered[q] = id
                         THEN <<p[CHOOSE q \in 1..k : ordered[q] = id]>>
                         ELSE ce[id]]
          IN  /\ ce' = cef
              /\ ordered' = Rerank(ordered, k, cef, score)
    /\ rk_pc' = "loop" /\ rk_i' = 1
    /\ UNCHANGED <<score, mmr, ranks_cross, top_n, diversity, selected,
                   selected_idx, ranked>>
    /\ UNCHANGED rk_others

\* lines 278-285, predict raises: fail open
CrossEncoderFails ==
    /\ rk_pc = "ordered"
    /\ ranks_cross = "raises" /\ ordered # <<>>
    /\ rk_pc' = "loop" /\ rk_i' = 1
    /\ UNCHANGED <<score, ce, mmr, ranks_cross, top_n, diversity, ordered,
                   selected, selected_idx, ranked>>
    /\ UNCHANGED rk_others

\* line 275, no cross-encoder loaded
NoCrossEncoder ==
    /\ rk_pc = "ordered"
    /\ (ranks_cross = "none" \/ ordered = <<>>)
    /\ rk_pc' = "loop" /\ rk_i' = 1
    /\ UNCHANGED <<score, ce, mmr, ranks_cross, top_n, diversity, ordered,
                   selected, selected_idx, ranked>>
    /\ UNCHANGED rk_others

\* lines 299-303: one iteration of the loop, the first top_n are taken as is
MmrTake ==
    /\ rk_pc = "loop" /\ rk_i <= Len(ordered)
    /\ Len(selected) < top_n
    /\ selected' = Append(selected, ordered[rk_i])
    /\ selected_idx' = Append(selected_idx, rk_i)
    /\ rk_i' = rk_i + 1
    /\ UNCHANGED <<rk_pc, score, ce, mmr, ranks_cross, top_n, diversity, ordered,
                   ranked>>
    /\ UNCHANGED rk_others

\* lines 304-318: one iteration of the loop once top_n are selected
MmrCompete ==
    /\ rk_pc = "loop" /\ rk_i <= Len(ordered)
    /\ ~(Len(selected) < top_n)
    /\ selected # <<>>
    /\ \E sim \in SimVals :
          LET cand == ordered[rk_i]
              mmr_score == MmrScore(score[cand], diversity, sim)
              worst_idx == WorstIdx(selected, mmr, score)
              worst_mmr == Retained(selected[worst_idx], mmr, score)
          IN  IF mmr_score > worst_mmr
              THEN /\ mmr' = [mmr EXCEPT ![cand] = <<mmr_score>>]
                   /\ selected' = [selected EXCEPT ![worst_idx] = cand]
                   /\ selected_idx' = [selected_idx EXCEPT ![worst_idx] = rk_i]
              ELSE UNCHANGED <<mmr, selected, selected_idx>>
    /\ rk_i' = rk_i + 1
    /\ UNCHANGED <<rk_pc, score, ce, ranks_cross, top_n, diversity, ordered, ranked>>
    /\ UNCHANGED rk_others

\* line 313 with nothing selected: min() of an empty range raises ValueError,
\* which nothing in rank_sections or main catches
MmrRaises ==
    /\ rk_pc = "loop" /\ rk_i <= Len(ordered)
    /\ ~(Len(selected) < top_n)
    /\ selected = <<>>
    /\ rk_pc' = "raised"
    /\ UNCHANGED <<score, ce, mmr, ranks_cross, top_n, diversity, ordered,
                   selected, selected_idx, rk_i, ranked>>
    /\ UNCHANGED rk_others

\* the selection cut to top_n without ordering it
RankedUnsorted(sel, mm, sc, n) == Prefix(sel, n)
\* line 319: sorted(selected, key=_mmr or score, reverse=True)[:top_n]
RankedOf(sel, mm, sc, n) ==
    Prefix(SortedReverse(sel, [x \in DOMAIN sc |-> <<Retained(x, mm, sc), 0>>]), n)

\* main.py lines 210-217: one entry per ranked section; importance_rank is
\* i+1 for the 0-based index i of enumerate(), the 1-based position here
ExtractedSections(top_sections) ==
    [i \in 1..Len(top_sections) |->
        [section |-> top_sections[i], importance_rank |-> i]]

\* lines 319-328: order the selection, cut to top_n, drop _mmr of the returned
RankReturn ==
    /\ rk_pc = "loop" /\ rk_i > Len(ordered)
    /\ LET r == RankedOf(selected, mmr, score, top_n)
       IN  /\ ranked' = r
           /\ mmr' = [id \in DOMAIN mmr |->
                         IF \E k \in 1..Len(r) : r[k] = id THEN None ELSE mmr[id]]
    /\ rk_pc' = "returned"
    /\ UNCHANGED <<score, ce, ranks_cross, top_n, diversity, ordered, selected,
                   selected_idx, rk_i>>
    /\ UNCHANGED rk_others

\* main.py lines 190-226: main builds and writes the output from what
\* rank_sections returned
RankOutputWritten ==
    /\ rk_pc = "returned"
    /\ outputs' = Append(outputs, [collection |-> 1,
                                   extracted_sections |-> ExtractedSections(ranked)])
    /\ rk_pc' = "written"
    /\ UNCHANGED <<score, ce, mmr, ranks_cross, top_n, diversity, ordered, selected,
                   selected_idx, rk_i, ranked>>
    /\ UNCHANGED <<ba_pc, collections, col_i, doc_i, all_sections, dedup_input>>
    /\ UNCHANGED <<dd_vars, sn_vars, ol_vars, ex_vars, ca_vars, tf_vars, bq_vars, li_vars>>

RankNext ==
    \/ SortByScore
    \/ CrossEncoderRerank
    \/ CrossEncoderFails
    \/ NoCrossEncoder
    \/ MmrTake
    \/ MmrCompete
    \/ MmrRaises
    \/ RankReturn
    \/ RankOutputWritten

(***************************************************************************)
(* main: the batch over collections and their documents                    *)
(***************************************************************************)
MaxDocuments == 2         \* longest document list of a collection
LISTED == 2               \* entries os.listdir(input_root) returns

\* What extract_sections returns for a document: section records without
\* the 'document' key.
Sec(t, p) == [title |-> t, page_number |-> p]
SectionLists == {<<>>, <<Sec("Overview", 1), Sec("Notes", 2)>>}

\* A document of the input JSON: its file name and what extraction does on
\* it -- extract_outline raises, extract_sections raises, or a section list
\* is returned.
Document(k, e, secs) == [filename |-> <<"doc", k>>, extraction |-> e, sections |-> secs]
DocumentsAt(k) ==
    {Document(k, "ok", secs) : secs \in SectionLists}
    \cup {Document(k, e, <<>>) : e \in {"outline_raises", "sections_raises"}}
DocumentLists ==
    UNION {{ds \in [1..n -> UNION {DocumentsAt(k) : k \in 1..n}] :
               \A k \in 1..n : ds[k] \in DocumentsAt(k)} : n \in 0..MaxDocuments}

\* An entry of the input directory.  input says what lines 134-150 find:
\* not a directory, no challenge1b_input.json, a JSON without persona, job
\* or documents, or a complete one.
Collection(i, ds) == [input |-> i, documents |-> ds]
Collections ==
    {Collection("ok", ds) : ds \in DocumentLists}
    \cup {Collection(i, <<>>) : i \in {"not_dir", "no_input_json", "no_persona",
                                       "no_job", "no_documents"}}

\* lines 162-163: for s in sections: s['document'] = pdf_filename
TaggedUntagged(secs, pdf_filename) ==
    [j \in 1..Len(secs) |->
        [title |-> secs[j].title, page_number |-> secs[j].page_number,
         document |-> <<>>]]
Tagged(secs, pdf_filename) ==
    [j \in 1..Len(secs) |->
        [title |-> secs[j].title, page_number |-> secs[j].page_number,
         document |-> pdf_filename]]

BatchIdle ==
    /\ ba_pc = "idle" /\ collections = <<>> /\ col_i = 0 /\ doc_i = 0
    /\ all_sections = <<>> /\ dedup_input = None /\ outputs = <<>>

\* State on entry to the loop of line 134.
BatchStarted ==
    /\ ba_pc = "collection"
    /\ collections \in [1..LISTED -> Collections]
    /\ col_i = 1 /\ doc_i = 0
    /\ all_sections = <<>> /\ dedup_input = None /\ outputs = <<>>

\* lines 135-144: the entry is not a directory or has no input JSON
BatchSkipCollection ==
    /\ ba_pc = "collection" /\ col_i <= Len(collections)
    /\ collections[col_i].input \in {"not_dir", "no_input_json"}
    /\ col_i' = col_i + 1
    /\ UNCHANGED <<ba_pc, collections, doc_i, all_sections, dedup_input, outputs>>
    /\ UNCHANGED ba_others

\* lines 148-150: input_data['persona']['role'], ['job_to_be_done']['task'],
\* ['documents'] on a JSON without the key: KeyError, caught nowhere
BatchInputRaises ==
    /\ ba_pc = "collection" /\ col_i <= Len(collections)
    /\ collections[col_i].input \in {"no_persona", "no_job", "no_documents"}
    /\ ba_pc' = "raised"
    /\ UNCHANGED <<collections, col_i, doc_i, all_sections, dedup_input, outputs>>
    /\ UNCHANGED ba_others

\* lines 145-154: a complete input JSON is read
BatchReadInput ==
    /\ ba_pc = "collection" /\ col_i <= Len(collections)
    /\ collections[col_i].input = "ok"
    /\ ba_pc' = "documents" /\ doc_i' = 1
    /\ all_sections' = <<>> /\ dedup_input' = None
    /\ UNCHANGED <<collections, col_i, outputs>>
    /\ UNCHANGED ba_others

\* lines 155-164: the try block runs to its end
BatchDocumentExtracted ==
    /\ ba_pc = "documents" /\ doc_i <= Len(collections[col_i].documents)
    /\ LET d == collections[col_i].documents[doc_i] IN
          /\ d.extraction = "ok"
          /\ all_sections' = all_sections \o Tagged(d.sections, d.filename)
    /\ doc_i' = doc_i + 1
    /\ UNCHANGED <<ba_pc, collections, col_i, dedup_input, outputs>>
    /\ UNCHANGED ba_others

\* lines 159-166: extract_outline or extract_sections raises, the document
\* is skipped
BatchDocumentSkipped ==
    /\ ba_pc = "documents" /\ doc_i <= Len(collections[col_i].documents)
    /\ collections[col_i].documents[doc_i].extraction
           \in {"outline_raises", "sections_raises"}
    /\ doc_i' = doc_i + 1
    /\ UNCHANGED <<ba_pc, collections, col_i, all_sections, dedup_input, outputs>>
    /\ UNCHANGED ba_others

\* What deduplicate_sections can return: the sections at the kept positions,
\* in their order (line 124; kept stays increasing).
SubList(seq, keep) ==
    LET idx == SelectSeq(Indices(Len(seq)), LAMBDA i : i \in keep)
    IN  [j \in 1..Len(idx) |-> seq[idx[j]]]

\* lines 169-170: deduplicate_sections(all_sections, 0.82) returns a
\* non-empty sub-list
BatchDedup ==
    /\ ba_pc = "documents" /\ doc_i > Len(collections[col_i].documents)
    /\ all_sections # <<>>
    /\ dedup_input' = <<all_sections>>
    /\ \E keep \in (SUBSET (1..Len(all_sections))) \ {{}} :
          all_sections' = SubList(all_sections, keep)
    /\ ba_pc' = "rank"
    /\ UNCHANGED <<collections, col_i, doc_i, outputs>>
    /\ UNCHANGED ba_others

\* lines 172-183, 221-226: no section at all, the minimal output is written
BatchWriteEmpty ==
    /\ ba_pc = "documents" /\ doc_i > Len(collections[col_i].documents)
    /\ all_sections = <<>>
    /\ outputs' = Append(outputs, [collection |-> col_i, extracted_sections |-> <<>>])
    /\ ba_pc' = "collection" /\ col_i' = col_i + 1
    /\ UNCHANGED <<collections, doc_i, all_sections, dedup_input>>
    /\ UNCHANGED ba_others

\* lines 186-226: rank_sections returns up to TOP_N of the sections, the
\* output is written
BatchRankAndWrite ==
    /\ ba_pc = "rank"
    /\ \E n \in 1..Len(all_sections) :
          outputs' = Append(outputs,
              [collection |-> col_i,
               extracted_sections |-> ExtractedSections(Prefix(all_sections, n))])
    /\ ba_pc' = "collection" /\ col_i' = col_i + 1
    /\ UNCHANGED <<collections, doc_i, all_sections, dedup_input>>
    /\ UNCHANGED ba_others

\* line 190: rank_sections raises (TOP_N=0, ranker.py line 313; or the
\* embedding model fails), caught nowhere
BatchRankRaises ==
    /\ ba_pc = "rank"
    /\ ba_pc' = "raised"
    /\ UNCHANGED <<collections, col_i, doc_i, all_sections, dedup_input, outputs>>
    /\ UNCHANGED ba_others

\* line 249: the loop is over
BatchDone ==
    /\ ba_pc = "collection" /\ col_i > Len(collections)
    /\ ba_pc' = "done"
    /\ UNCHANGED <<collections, col_i, doc_i, all_sections, dedup_input, outputs>>
    /\ UNCHANGED ba_others

BatchNext ==
    \/ BatchSkipCollection
    \/ BatchInputRaises
    \/ BatchReadInput
    \/ BatchDocumentExtracted
    \/ BatchDocumentSkipped
    \/ BatchDedup
    \/ BatchWriteEmpty
    \/ BatchRankAndWrite
    \/ BatchRankRaises
    \/ BatchDone

(***************************************************************************)
(* encode_texts_with_cache: the sqlite cache of embeddings, used by        *)
(* several processes on one cache file                                      *)
(***************************************************************************)
MaxCalls == 2             \* calls a process makes

Procs == {"p1", "p2"}
Texts == {"alpha", "beta"}
TextLists == UNION {[1..n -> Texts] : n \in 0..2}

\* line 17: the SHA-1 of a text, one digest per text
_sha1(text) == <<"sha1", text>>
Hashes == {_sha1(t) : t \in Texts}

\* model.encode(texts, normalize_embeddings=normalize): a deterministic
\* encoder; the vector of a text is scaled to unit length when normalize is
\* set and is the raw output otherwise
Encode(text, normalize) == [of |-> text, unit |-> normalize]

\* lines 65-71: SELECT ... WHERE model = ? AND sha IN (hashes)
CachedRows(table, texts) ==
    [h \in {g \in {_sha1(texts[i]) : i \in 1..Len(texts)} : table[g] # None}
        |-> table[h][1]]

\* line 73
ToEncodeIdx(texts, rows) ==
    SelectSeq(Indices(Len(texts)), LAMBDA i : _sha1(texts[i]) \notin DOMAIN rows)

\* lines 100-107: INSERT OR REPLACE of every text the SELECT did not find
Inserted(table, texts, rows, normalize) ==
    [h \in DOMAIN table |->
        IF \E i \in 1..Len(texts) : _sha1(texts[i]) = h /\ h \notin DOMAIN rows
        THEN <<Encode(CHOOSE t \in Texts : _sha1(t) = h, normalize)>>
        ELSE table[h]]

\* lines 80-85, 100-102, 110: cached vectors where found, new ones elsewhere
Embs(texts, rows, normalize) ==
    [i \in 1..Len(texts) |->
        IF _sha1(texts[i]) \in DOMAIN rows THEN rows[_sha1(texts[i])]
        ELSE Encode(texts[i], normalize)]

CacheIdle ==
    /\ ca_pc = <<>> /\ embeddings = <<>> /\ ca_texts = <<>> /\ ca_normalize = <<>>
    /\ cached_rows = <<>> /\ ca_out = <<>> /\ ca_calls = <<>>

\* The processes are started, the cache file is new.
CacheStarted ==
    /\ ca_pc = [p \in Procs |-> "idle"]
    /\ embeddings = [h \in Hashes |-> None]
    /\ ca_texts = [p \in Procs |-> <<>>]
    /\ ca_normalize = [p \in Procs |-> TRUE]
    /\ cached_rows = [p \in Procs |-> <<>>]
    /\ ca_out = [p \in Procs |-> <<>>]
    /\ ca_calls = [p \in Procs |-> 0]

\* lines 53-54: no texts, nothing is read or written
CacheCallEmpty(p) ==
    /\ ca_pc[p] = "idle" /\ ca_calls[p] < MaxCalls
    /\ \E normalize \in BOOLEAN :
          /\ ca_texts' = [ca_texts EXCEPT ![p] = <<>>]
          /\ ca_normalize' = [ca_normalize EXCEPT ![p] = normalize]
    /\ ca_out' = [ca_out EXCEPT ![p] = <<>>]
    /\ cached_rows' = [cached_rows EXCEPT ![p] = <<>>]
    /\ ca_calls' = [ca_calls EXCEPT ![p] = @ + 1]
    /\ UNCHANGED <<ca_pc, embeddings>>
    /\ UNCHANGED ca_others

\* lines 56-73: the call opens the cache file and reads the rows of its texts
CacheSelect(p) ==
    /\ ca_pc[p] = "idle" /\ ca_calls[p] < MaxCalls
    /\ \E texts \in TextLists \ {<<>>}, normalize \in BOOLEAN :
          /\ ca_texts' = [ca_texts EXCEPT ![p] = texts]
          /\ ca_normalize' = [ca_normalize EXCEPT ![p] = normalize]
          /\ cached_rows' = [cached_rows EXCEPT ![p] = CachedRows(embeddings, texts)]
    /\ ca_pc' = [ca_pc EXCEPT ![p] = "selected"]
    /\ ca_calls' = [ca_calls EXCEPT ![p] = @ + 1]
    /\ UNCHANGED <<embeddings, ca_out>>
    /\ UNCHANGED ca_others

\* lines 76-111 with every text found: the cached vectors are returned
CacheHit(p) ==
    /\ ca_pc[p] = "selected"
    /\ ToEncodeIdx(ca_texts[p], cached_rows[p]) = <<>>
    /\ ca_out' = [ca_out EXCEPT ![p] = Embs(ca_texts[p], cached_rows[p], ca_normalize[p])]
    /\ ca_pc' = [ca_pc EXCEPT ![p] = "idle"]
    /\ UNCHANGED <<embeddings, ca_texts, ca_normalize, cached_rows, ca_calls>>
    /\ UNCHANGED ca_others

\* lines 76-111 with texts to encode: they are encoded, written and
\* committed, and the embeddings are returned
CacheEncodeAndStore(p) ==
    /\ ca_pc[p] = "selected"
    /\ ToEncodeIdx(ca_texts[p], cached_rows[p]) # <<>>
    /\ embeddings' = Inserted(embeddings, ca_texts[p], cached_rows[p], ca_normalize[p])
    /\ ca_out' = [ca_out EXCEPT ![p] = Embs(ca_texts[p], cached_rows[p], ca_normalize[p])]
    /\ ca_pc' = [ca_pc EXCEPT ![p] = "idle"]
    /\ UNCHANGED <<ca_texts, ca_normalize, cached_rows, ca_calls>>
    /\ UNCHANGED ca_others

CacheNext ==
    \E p \in Procs :
        \/ CacheCallEmpty(p)
        \/ CacheSelect(p)
        \/ CacheHit(p)
        \/ CacheEncodeAndStore(p)

(***************************************************************************)
(* The clean-title filter: is_clean_title of section_extractor.py on a     *)
(* heading title (line 77) and is_clean_title of ranker.py on the title of  *)
(* the section made from it (line 222)                                      *)
(***************************************************************************)
MaxTitleLen == 4          \* longest freely composed title

TitleChars == {"1", "N", "o", " "}
FilterTitles ==
    (UNION {[1..n -> TitleChars] : n \in 1..MaxTitleLen})
    \cup {T_Overview, T_NumOverview, T_Notes, T_Introduction, T_Item, T_WhereToStay}

\* section_extractor.py line 16: title[3] of a stripped title of three
\* digits, which passed lines 10-15, raises IndexError
CleanTitleRaises(raw) ==
    LET t == Strip(raw)
    IN  Len(t) = 3 /\ \A i \in 1..3 : t[i] \in DIGITS

TitleIdle ==
    /\ tf_pc = "idle" /\ tf_title = <<>> /\ tf_segmenter = "none" /\ tf_ranker = 0

\* extract_sections is at line 77 with a heading title
TitleGiven ==
    /\ tf_pc = "heading" /\ tf_title \in FilterTitles
    /\ tf_segmenter = "none" /\ tf_ranker = 0

\* section_extractor.py lines 9-16: the filter raises
TitleFilterRaises ==
    /\ tf_pc = "heading"
    /\ CleanTitleRaises(tf_title)
    /\ tf_segmenter' = "IndexError"
    /\ tf_pc' = "raised"
    /\ UNCHANGED <<tf_title, tf_ranker>>
    /\ UNCHANGED tf_others

\* section_extractor.py lines 77-78: the heading is skipped
TitleSkipped ==
    /\ tf_pc = "heading"
    /\ ~CleanTitleRaises(tf_title) /\ ~is_clean_title(tf_title)
    /\ tf_segmenter' = "False"
    /\ tf_pc' = "skipped"
    /\ UNCHANGED <<tf_title, tf_ranker>>
    /\ UNCHANGED tf_others

\* section_extractor.py lines 77-106: the heading becomes a section
TitleSection ==
    /\ tf_pc = "heading"
    /\ ~CleanTitleRaises(tf_title) /\ is_clean_title(tf_title)
    /\ tf_segmenter' = "True"
    /\ tf_pc' = "section"
    /\ UNCHANGED <<tf_title, tf_ranker>>
    /\ UNCHANGED tf_others

\* ranker.py line 222 on the section
TitleQuality ==
    /\ tf_pc = "section"
    /\ tf_ranker' = title_quality(tf_title)
    /\ tf_pc' = "ranked"
    /\ UNCHANGED <<tf_title, tf_segmenter>>
    /\ UNCHANGED tf_others

TitleNext == TitleFilterRaises \/ TitleSkipped \/ TitleSection \/ TitleQuality

(***************************************************************************)
(* _build_queries (1b/src/ranker.py), called by rank_sections in two runs   *)
(* of the program on the same persona and job                               *)
(***************************************************************************)
P_TravelPlanner ==
    <<"T", "r", "a", "v", "e", "l", " ", "p", "l", "a", "n", "n", "e", "r">>
P_Chef ==
    <<"C", "h", "e", "f">>
J_PlanTrip ==
    <<"P", "l", "a", "n", " ", "a", " ", "t", "r", "i", "p">>
J_PlannerTrip ==
    <<"p", "l", "a", "n", "n", "e", "r", "-", "t", "r", "i", "p", ";", " ", "a",
      ",", " ", "b">>
J_Cook ==
    <<"C", "o", "o", "k">>

Personas == {P_TravelPlanner, P_Chef}
Jobs == {J_PlanTrip, J_PlannerTrip, J_Cook}
QueryRuns == {"run1", "run2"}

\* lines 125-126: re.split(r"[,/;\-]\s*|\s+", s) and the pieces longer than
\* 2: the runs of characters that are neither a separator nor whitespace
QUERY_SEPARATORS == {",", "/", ";", "-"}
QueryTerms(s) ==
    SelectSeq(Runs(s, QUERY_SEPARATORS \cup SPACES, FALSE), LAMBDA w : Len(w) > 2)

\* the orders in which iterating a set of strings can yield its elements:
\* the order follows the string hashes, which are salted anew in every
\* interpreter process
IterationOrders(S) ==
    {f \in [1..Cardinality(S) -> S] : \A x \in S : \E i \in 1..Cardinality(S) : f[i] = x}

\* lines 127-132, with the set iterated in the given order
QueriesJoined(persona, job, order) ==
    <<job, persona \o <<" ">> \o job, Join(order, <<" ">>)>>

QueriesIdle ==
    /\ bq_pc = <<>> /\ bq_persona = <<>> /\ bq_job = <<>> /\ bq_queries = <<>>

\* ranker.py line 155 in both runs: the same persona and job
QueriesCalled ==
    /\ bq_pc = [r \in QueryRuns |-> "called"]
    /\ bq_persona \in Personas /\ bq_job \in Jobs
    /\ bq_queries = [r \in QueryRuns |-> <<>>]

\* _build_queries, lines 124-132
BuildQueries(r) ==
    /\ bq_pc[r] = "called"
    /\ \E order \in IterationOrders(SeqToSet(QueryTerms(bq_persona) \o QueryTerms(bq_job))) :
          bq_queries' = [bq_queries EXCEPT ![r] = QueriesJoined(bq_persona, bq_job, order)]
    /\ bq_pc' = [bq_pc EXCEPT ![r] = "returned"]
    /\ UNCHANGED <<bq_persona, bq_job>>
    /\ UNCHANGED bq_others

QueriesNext == \E r \in QueryRuns : BuildQueries(r)

(***************************************************************************)
(* The output of a collection and the cross-collection library: main       *)
(* (1b/src/main.py, lines 192-247), load_sections_from_output              *)
(* (1b/src/recommender.py) and build_and_save_library, _collect_sections    *)
(* and _ensure_library_loaded (1b/src/library_index.py)                     *)
(***************************************************************************)
MaxOutputs == 2           \* collections processed

\* a ranked section of a collection
RankedSection(document, section_title, page_number, text) ==
    [document |-> document, title |-> section_title, page_number |-> page_number,
     text |-> text]
RankedPool ==
    {RankedSection("a.pdf", "Overview", 1, "overview text"),
     RankedSection("a.pdf", "Notes", 1, "notes text"),
     RankedSection("a.pdf", "Maps", 2, "maps text")}
\* the lists rank_sections returns; the empty list stands for a collection
\* without sections (main.py lines 172-183)
TopLists ==
    {<<>>} \cup {<<a>> : a \in RankedPool}
           \cup {<<x[1], x[2]>> : x \in {y \in RankedPool \X RankedPool : y[1] # y[2]}}

\* extract_best_sentences, main.py lines 51-81: the best sentences of the
\* section's text
extract_best_sentences(sec) == <<"best sentences of", sec.text>>

\* main.py lines 193-219
OutputOf(top_sections) ==
    [extracted_sections |->
        [i \in 1..Len(top_sections) |->
            [document |-> top_sections[i].document,
             section_title |-> top_sections[i].title,
             importance_rank |-> i,
             page_number |-> top_sections[i].page_number]],
     subsection_analysis |->
        [i \in 1..Len(top_sections) |->
            [document |-> top_sections[i].document,
             refined_text |-> extract_best_sentences(top_sections[i]),
             page_number |-> top_sections[i].page_number]]]

\* the dict built by the loops of recommender.py lines 18-21 and
\* library_index.py lines 47-49: the last entry of a key wins
SubMapText(subs, document, page_number) ==
    LET hits == SelectSeq(subs, LAMBDA sub :
                    sub.document = document /\ sub.page_number = page_number)
    IN  IF hits = <<>> THEN <<>> ELSE hits[Len(hits)].refined_text

\* load_sections_from_output, recommender.py lines 12-33
load_sections_from_output(json_data) ==
    [i \in 1..Len(json_data.extracted_sections) |->
        LET sec == json_data.extracted_sections[i]
        IN  [document |-> sec.document,
             section_title |-> sec.section_title,
             text |-> SubMapText(json_data.subsection_analysis, sec.document, sec.page_number),
             page_number |-> sec.page_number]]

\* library_index.py lines 46-58 for the output of one collection
CollectedOf(name, data) ==
    [i \in 1..Len(data.extracted_sections) |->
        LET sec == data.extracted_sections[i]
        IN  [collection |-> name,
             document |-> sec.document,
             section_title |-> sec.section_title,
             page_number |-> sec.page_number,
             text |-> SubMapText(data.subsection_analysis, sec.document, sec.page_number)]]

\* _collect_sections, library_index.py lines 35-59; collection k has the
\* k-th name of the sorted listing
_collect_sections(files) ==
    Join([k \in 1..Len(files) |-> CollectedOf(k, files[k])], <<>>)

\* library_index.py line 79
MetaTexts(meta) == [i \in 1..Len(meta) |-> meta[i].text]

\* library_index.py lines 67-72: the stored library is taken as it is
LibraryIsLoaded(faiss, meta, index) ==
    meta # None /\ faiss /\ index # None

\* library_index.py lines 82-86: the index file after a fresh build
IndexBuilt(faiss, index, meta) ==
    IF faiss /\ Len(meta) > 0 THEN <<MetaTexts(meta)>> ELSE index

LibraryIdle ==
    /\ li_pc = "idle" /\ faiss_available = FALSE /\ top_lists = <<>> /\ li_i = 0
    /\ output_files = <<>> /\ loaded_sections = <<>>
    /\ meta_file = None /\ index_file = None

\* main starts on an empty output root and an empty cache directory
LibraryStarted ==
    /\ li_pc = "collection" /\ faiss_available \in BOOLEAN
    /\ top_lists \in UNION {[1..n -> TopLists] : n \in 1..MaxOutputs}
    /\ li_i = 0 /\ output_files = <<>> /\ loaded_sections = <<>>
    /\ meta_file = None /\ index_file = None

\* main.py lines 172-226: the output of the next collection is written
LibraryWriteOutput ==
    /\ li_pc = "collection"
    /\ li_i < Len(top_lists)
    /\ output_files' = Append(output_files, OutputOf(top_lists[li_i + 1]))
    /\ li_pc' = "written"
    /\ UNCHANGED <<faiss_available, top_lists, li_i, loaded_sections, meta_file, index_file>>
    /\ UNCHANGED li_others

\* main.py line 230, recommender.py lines 105-108: the sections of the new
\* output are loaded for the recommendations
LibraryLoadSections ==
    /\ li_pc = "written"
    /\ loaded_sections' = load_sections_from_output(output_files[Len(output_files)])
    /\ li_pc' = "recommended"
    /\ UNCHANGED <<faiss_available, top_lists, li_i, output_files, meta_file, index_file>>
    /\ UNCHANGED li_others

\* main.py line 241, library_index.py lines 62-72: build_and_save_library
\* (rebuild=False) finds the metadata and the index and returns them
LibraryLoaded ==
    /\ li_pc = "recommended"
    /\ LibraryIsLoaded(faiss_available, meta_file, index_file)
    /\ li_pc' = "built"
    /\ UNCHANGED <<faiss_available, top_lists, li_i, output_files, loaded_sections,
                   meta_file, index_file>>
    /\ UNCHANGED li_others

\* main.py line 241, library_index.py lines 62-94: build_and_save_library
\* (rebuild=False) builds the library from the outputs and saves it
LibraryBuilt ==
    /\ li_pc = "recommended"
    /\ ~LibraryIsLoaded(faiss_available, meta_file, index_file)
    /\ LET meta == _collect_sections(output_files)
       IN  /\ meta_file' = <<meta>>
           /\ index_file' = IndexBuilt(faiss_available, index_file, meta)
    /\ li_pc' = "built"
    /\ UNCHANGED <<faiss_available, top_lists, li_i, output_files, loaded_sections>>
    /\ UNCHANGED li_others

\* main.py line 242, library_index.py lines 97-103 and 157: the query reads
\* the stored library; the iteration of main's loop ends
LibraryEnsureLoaded ==
    /\ li_pc = "built"
    /\ LibraryIsLoaded(faiss_available, meta_file, index_file)
    /\ li_pc' = "collection"
    /\ li_i' = li_i + 1
    /\ UNCHANGED <<faiss_available, top_lists, output_files, loaded_sections,
                   meta_file, index_file>>
    /\ UNCHANGED li_others

\* main.py line 242, library_index.py lines 104-108 and 77-94: the query
\* rebuilds the library; the iteration of main's loop ends
LibraryEnsureRebuilt ==
    /\ li_pc = "built"
    /\ ~LibraryIsLoaded(faiss_available, meta_file, index_file)
    /\ LET meta == _collect_sections(output_files)
       IN  /\ meta_file' = <<meta>>
           /\ index_file' = IndexBuilt(faiss_available, index_file, meta)
    /\ li_pc' = "collection"
    /\ li_i' = li_i + 1
    /\ UNCHANGED <<faiss_available, top_lists, output_files, loaded_sections>>
    /\ UNCHANGED li_others

LibraryNext ==
    \/ LibraryWriteOutput \/ LibraryLoadSections
    \/ LibraryLoaded \/ LibraryBuilt
    \/ LibraryEnsureLoaded \/ LibraryEnsureRebuilt

InitRank ==
    /\ RankInit
    /\ DedupIdle
    /\ SnippetIdle
    /\ OutlineIdle
    /\ ExtractorIdle
    /\ BatchIdle
    /\ CacheIdle
    /\ TitleIdle
    /\ QueriesIdle
    /\ LibraryIdle

SpecRank == InitRank /\ [][RankNext]_vars

InitDedup ==
    /\ DedupCalled
    /\ RankIdle
    /\ SnippetIdle
    /\ OutlineIdle
    /\ ExtractorIdle
    /\ BatchIdle
    /\ CacheIdle
    /\ TitleIdle
    /\ QueriesIdle
    /\ LibraryIdle

SpecDedup == InitDedup /\ [][DedupNext]_vars

InitSnippet ==
    /\ SnippetCalled
    /\ RankIdle
    /\ DedupIdle
    /\ OutlineIdle
    /\ ExtractorIdle
    /\ BatchIdle
    /\ CacheIdle
    /\ TitleIdle
    /\ QueriesIdle
    /\ LibraryIdle

SpecSnippet == InitSnippet /\ [][SnippetNext]_vars

InitOutline ==
    /\ OutlineOpened
    /\ RankIdle
    /\ DedupIdle
    /\ SnippetIdle
    /\ ExtractorIdle
    /\ BatchIdle
    /\ CacheIdle
    /\ TitleIdle
    /\ QueriesIdle
    /\ LibraryIdle

SpecOutline == InitOutline /\ [][OutlineNext]_vars

InitExtractor ==
    /\ ExtractorCreated
    /\ RankIdle
    /\ DedupIdle
    /\ SnippetIdle
    /\ OutlineIdle
    /\ BatchIdle
    /\ CacheIdle
    /\ TitleIdle
    /\ QueriesIdle
    /\ LibraryIdle

SpecExtractor == InitExtractor /\ [][ExtractorNext]_vars

InitBatch ==
    /\ BatchStarted
    /\ RankIdle
    /\ DedupIdle
    /\ SnippetIdle
    /\ OutlineIdle
    /\ ExtractorIdle
    /\ CacheIdle
    /\ TitleIdle
    /\ QueriesIdle
    /\ LibraryIdle

SpecBatch == InitBatch /\ [][BatchNext]_vars

InitCache ==
    /\ CacheStarted
    /\ RankIdle
    /\ DedupIdle
    /\ SnippetIdle
    /\ OutlineIdle
    /\ ExtractorIdle
    /\ BatchIdle
    /\ TitleIdle
    /\ QueriesIdle
    /\ LibraryIdle

SpecCache == InitCache /\ [][CacheNext]_vars

InitTitle ==
    /\ TitleGiven
    /\ RankIdle
    /\ DedupIdle
    /\ SnippetIdle
    /\ OutlineIdle
    /\ ExtractorIdle
    /\ BatchIdle
    /\ CacheIdle
    /\ QueriesIdle
    /\ LibraryIdle

SpecTitle == InitTitle /\ [][TitleNext]_vars

InitQueries ==
    /\ QueriesCalled
    /\ RankIdle
    /\ DedupIdle
    /\ SnippetIdle
    /\ OutlineIdle
    /\ ExtractorIdle
    /\ BatchIdle
    /\ CacheIdle
    /\ TitleIdle
    /\ LibraryIdle

SpecQueries == InitQueries /\ [][QueriesNext]_vars

InitLibrary ==
    /\ LibraryStarted
    /\ RankIdle
    /\ DedupIdle
    /\ SnippetIdle
    /\ OutlineIdle
    /\ ExtractorIdle
    /\ BatchIdle
    /\ CacheIdle
    /\ TitleIdle
    /\ QueriesIdle

SpecLibrary == InitLibrary /\ [][LibraryNext]_vars

(***************************************************************************)
(* Claims about rank_sections                                              *)
(***************************************************************************)
InSeq(x, seq) == \E k \in 1..Len(seq) : seq[k] = x
NoRepeats(seq) == \A a, b \in 1..Len(seq) : seq[a] = seq[b] => a = b

\* C1: for every non-empty section list and every top_n >= 0, TOP_N = 0 and
\* top_n above the number of sections included, the call of rank_sections
\* ends by returning a list of at most top_n sections.
C1_ReturnsAtMostTopN ==
    rk_pc \in {"returned", "raised"} =>
        (rk_pc = "returned" /\ Len(ranked) <= top_n)

\* C2: with diversity = 0 and top_n >= 1 the sections the MMR loop has
\* selected are the top_n by raw score, up to ties in score: there are
\* min(top_n, number of sections) of them, all different, and no section
\* left out scores higher than a selected one -- whether or not the
\* cross-encoder reordered the candidates before the loop.
C2_DiversityZeroIsTopN ==
    (rk_pc = "returned" /\ diversity = 0 /\ top_n >= 1) =>
        /\ Len(selected) = Min2(top_n, Len(score))
        /\ NoRepeats(selected)
        /\ \A out \in DOMAIN score : \A k \in 1..Len(selected) :
              ~InSeq(out, selected) => score[out] <= score[selected[k]]

\* C2 witness: diversity 0, the cross-encoder changed the score order, and
\* the loop evicted a selected section for a later candidate.
C2_Witness ==
    /\ rk_pc = "returned" /\ diversity = 0 /\ top_n >= 1
    /\ ranks_cross = "ok"
    /\ ordered # OrderByScore(score)
    /\ \E k \in 1..Len(selected_idx) : selected_idx[k] > top_n

(***************************************************************************)
(* Claims about deduplicate_sections                                       *)
(***************************************************************************)
\* Jaccard similarity of two token sets >= thr/100, as the claims state it:
\* |A n B| / |A u B|, two identical sets being fully similar.
SimilarEnough(a, b, thr) ==
    IF a \cup b = {} THEN TRUE
    ELSE Cardinality(a \cap b) * 100 >= thr * Cardinality(a \cup b)

\* Quality as the claim spells it, an exact fraction of 1/10000:
\* 0.5*level_score + 0.4*min(len(text),4000)/4000 + 0.1/page_number
ClaimQuality(sec) ==
    LET lvl == IF sec.level = <<"H1">> THEN 10 ELSE IF sec.level = <<"H2">> THEN 8 ELSE 6
    IN  <<(500 * lvl + Min2(TextLen(sec.text), 4000)) * sec.page_number + 1000,
          sec.page_number>>

\* C3: of two sections A, B whose token sets are similar enough,
\* deduplicate_sections([A, B]) returns exactly one, and it is the one of
\* higher quality, whichever of the two comes first in the input.
C3_KeepsHigherQuality ==
    (/\ dd_pc = "returned" /\ Len(dd_sections) = 2
     /\ SimilarEnough(TokenSet(dd_sections[1]), TokenSet(dd_sections[2]),
                      similarity_threshold)) =>
        /\ Len(dd_result) = 1
        /\ dd_result[1] \in {dd_sections[1], dd_sections[2]}
        /\ \A a, b \in 1..2 :
              FracGreater(ClaimQuality(dd_sections[a]), ClaimQuality(dd_sections[b]))
                  => dd_result[1] = dd_sections[a]

\* C3 witness: the second of two similar sections is the better one and
\* has replaced the first.
C3_Witness ==
    /\ dd_pc = "returned" /\ Len(dd_sections) = 2
    /\ TokenSet(dd_sections[1]) # TokenSet(dd_sections[2])
    /\ SimilarEnough(TokenSet(dd_sections[1]), TokenSet(dd_sections[2]),
                     similarity_threshold)
    /\ FracGreater(ClaimQuality(dd_sections[2]), ClaimQuality(dd_sections[1]))
    /\ dd_result = <<dd_sections[2]>>

ExampleTokens == {<<"t", "r", "a", "v", "e", "l">>, <<"g", "u", "i", "d", "e">>, <<"e", "u", "r", "o", "p", "e">>}
ExampleTokensTips == ExampleTokens \cup {<<"t", "i", "p", "s">>}

\* C4: two sections count as duplicates exactly when the Jaccard similarity
\* of their token sets (lowercased alphanumeric tokens of length >= 3) is
\* at least the threshold; the token sets {travel, guide, europe} and
\* {travel, guide, europe, tips} are both kept under 0.82 and reduced to
\* one section under 0.70.
C4_DuplicateIffJaccard ==
    (dd_pc = "returned" /\ Len(dd_sections) = 2) =>
        /\ Len(dd_result) = 1 <=>
              SimilarEnough(TokenSet(dd_sections[1]), TokenSet(dd_sections[2]),
                            similarity_threshold)
        /\ Len(dd_result) \in {1, 2}
        /\ ({TokenSet(dd_sections[1]), TokenSet(dd_sections[2])}
                = {ExampleTokens, ExampleTokensTips}) =>
              /\ similarity_threshold = 82 => Len(dd_result) = 2
              /\ similarity_threshold = 70 => Len(dd_result) = 1

\* C4 witness: the travel example under threshold 0.82, both sections kept.
C4_Witness ==
    /\ dd_pc = "returned" /\ Len(dd_sections) = 2
    /\ TokenSet(dd_sections[1]) = ExampleTokens
    /\ TokenSet(dd_sections[2]) = ExampleTokensTips
    /\ dd_sections[1].text.head # dd_sections[2].text.head
    /\ similarity_threshold = 82
    /\ Len(dd_result) = 2

\* Number of whitespace-delimited tokens of a str
TokenCount(t) == Len(Split(t))

\* C5: for every input text and every query term list, the string returned
\* by select_snippet has at most 150 whitespace-delimited tokens, the case
\* where no sentence parses and the first 600 raw characters are returned
\* included.
C5_SnippetAtMost150Tokens ==
    sn_pc = "returned" => TokenCount(snippet) <= 150

\* C6: every section returned by extract_sections for a document, given
\* the outline extract_outline produced for the same document, has a
\* page_number within [1, number of pages of the document].
C6_SectionPageInDocument ==
    ol_pc = "done" =>
        \A k \in 1..Len(sections) :
            1 <= sections[k].page_number /\ sections[k].page_number <= Len(doc)

\* C6 witness: a document longer than the page limit of the outline scan
\* has yielded a section for a heading on the last page scanned.
C6_Witness ==
    /\ ol_pc = "done" /\ Len(doc) > 10
    /\ \E k \in 1..Len(sections) :
          sections[k].page_number = 10 /\ sections[k].level # None

\* C7: when the outline's heading list is empty, extract_sections returns
\* exactly one section; its title is the outline's title, or "Document" when
\* that is empty, its page_number is 1 and its text is the concatenation of
\* the first 3 pages, or of all pages when there are fewer.
C7_FallbackSection ==
    (ol_pc = "done" /\ headings = <<>>) =>
        /\ Len(sections) = 1
        /\ sections[1].title =
              (IF title = <<>> THEN <<"D", "o", "c", "u", "m", "e", "n", "t">> ELSE title)
        /\ sections[1].page_number = 1
        /\ sections[1].text =
              PageText(doc[1])
                  \o (IF Len(doc) >= 2 THEN PageText(doc[2]) ELSE <<>>)
                  \o (IF Len(doc) >= 3 THEN PageText(doc[3]) ELSE <<>>)

\* C7 witness: a four-page document without title and headings has become
\* one section "Document" that holds text.
C7_Witness ==
    /\ ol_pc = "done" /\ headings = <<>> /\ title = <<>> /\ Len(doc) > 3
    /\ Len(sections) = 1
    /\ sections[1].title = <<"D", "o", "c", "u", "m", "e", "n", "t">>
    /\ sections[1].text # <<>>
    /\ PageText(doc[4]) # <<>>

\* C9: with B the estimated body font size of the document, every heading of
\* extract_outline has font_size >= B, or a fully uppercase text, or a text
\* that starts with a numbering "<digits>." or "<digits>:" and a space.
C9_HeadingJustified ==
    ol_pc \in {"scanning", "outlined", "done"} =>
        \A k \in 1..Len(headings) :
            \/ headings[k].font_size >= body_size
            \/ IsUpper(headings[k].title)
            \/ Numbered(headings[k].title)

\* C9 witness: the returned outline holds an uppercase heading set in a font
\* smaller than the body text, and one at body size that is numbered.
C9_Witness ==
    /\ ol_pc = "outlined"
    /\ \E k \in 1..Len(headings) :
          headings[k].font_size < body_size /\ IsUpper(headings[k].title)
    /\ \E k \in 1..Len(headings) :
          /\ headings[k].font_size = body_size /\ Numbered(headings[k].title)
          /\ ~headings[k].bold /\ headings[k].indent >= 50

\* The lowercased text of the first three pages of the k-th file
FileTextLower(k) == StrLower(SampleText(pdf_files[k]))

LANGUAGES == {"spanish", "french", "german", "hindi", "chinese", "japanese", "arabic"}

\* C8 as stated: for every document whose first-3-page text contains
\* "application form" or the form phrase of any of the 7 supported
\* languages, heading extraction returns an empty heading list, whatever
\* fonts the document has and whatever language was or was not detected.
C8_FormPhraseEmptiesOutline ==
    \A k \in 1..Len(results) :
        (\/ Contains(FileTextLower(k), <<"a", "p", "p", "l", "i", "c", "a", "t", "i", "o", "n", " ", "f", "o", "r", "m">>)
         \/ \E lang \in LANGUAGES :
               Contains(FileTextLower(k), MULTILINGUAL_PATTERNS[lang].form_patterns[1]))
            => results[k].outline = <<>>

\* C8 amended: for every document whose first-3-page text contains
\* "application form", or a form pattern of the language that was detected
\* for that document, heading extraction returns an empty heading list,
\* whatever fonts the document has.
C8_DetectedFormEmptiesOutline ==
    \A k \in 1..Len(results) :
        (\/ Contains(FileTextLower(k), <<"a", "p", "p", "l", "i", "c", "a", "t", "i", "o", "n", " ", "f", "o", "r", "m">>)
         \/ /\ results[k].detected_language # None
            /\ \E i \in 1..7 :
                  Contains(FileTextLower(k),
                           MULTILINGUAL_PATTERNS[results[k].detected_language[1]].form_patterns[i]))
            => results[k].outline = <<>>

\* C8 witness: a document detected as Chinese holds the Chinese form phrase
\* and no English one, and next to it a bold 18 pt block without any form
\* pattern; its heading list is empty.
C8_Witness ==
    \E k \in 1..Len(results) :
        /\ results[k].detected_language = <<"chinese">>
        /\ Contains(FileTextLower(k), MULTILINGUAL_PATTERNS["chinese"].form_patterns[1])
        /\ ~Contains(FileTextLower(k), <<"a", "p", "p", "l", "i", "c", "a", "t", "i", "o", "n", " ", "f", "o", "r", "m">>)
        /\ \E b \in SeqToSet(PageBlocks(pdf_files[k][1])) :
              /\ IsBold(b) /\ MaxSize(b) > 1600
              /\ \A i \in 1..7 :
                    ~Contains(BlockText(b), MULTILINGUAL_PATTERNS["chinese"].form_patterns[i])
        /\ results[k].outline = <<>>

\* C10: the heading list returned for a document is a function of that
\* document alone: two files with the same document, processed by one
\* extractor with any other files in between, get the same heading list.
C10_OutlineFunctionOfDocument ==
    \A i, j \in 1..Len(results) :
        pdf_files[i] = pdf_files[j] => results[i].outline = results[j].outline

(***************************************************************************)
(* Claims about main                                                       *)
(***************************************************************************)
\* The sections of the documents of ds on which neither extract_outline nor
\* extract_sections raises, in document order, each with its file name.
RECURSIVE SucceededSections(_)
SucceededSections(ds) ==
    IF ds = <<>> THEN <<>>
    ELSE LET d == ds[Len(ds)]
             own == [j \in 1..Len(d.sections) |->
                        [title |-> d.sections[j].title,
                         page_number |-> d.sections[j].page_number,
                         document |-> d.filename]]
         IN  SucceededSections(SubSeq(ds, 1, Len(ds) - 1))
             \o (IF d.extraction = "ok" THEN own ELSE <<>>)

\* C11: whichever documents of a collection fail in extract_outline or
\* extract_sections, the list handed to deduplicate_sections is exactly the
\* sections of the documents that succeeded, in document order, each
\* carrying its own file name; nothing of a failed document is in it.
C11_DedupGetsSucceededSections ==
    (ba_pc = "rank" /\ dedup_input # None) =>
        dedup_input[1] = SucceededSections(collections[col_i].documents)

\* C11 witness: a collection whose first document fails and whose second
\* yields two sections reached the call of deduplicate_sections.
C11_Witness ==
    /\ ba_pc = "rank" /\ dedup_input # None
    /\ Len(collections[col_i].documents) = 2
    /\ collections[col_i].documents[1].extraction = "sections_raises"
    /\ collections[col_i].documents[2].extraction = "ok"
    /\ Len(dedup_input[1]) = 2
    /\ \A j \in 1..2 : dedup_input[1][j].document = <<"doc", 2>>

\* C12: no error ends the batch early -- a collection whose input JSON has
\* no persona, job or document list, or whose ranking raises, is skipped,
\* main runs to the end of the listing, and every collection with a
\* complete input has its output written.
C12_NoErrorAbortsBatch ==
    /\ ba_pc # "raised"
    /\ ba_pc = "done" =>
          \A c \in 1..Len(collections) :
              collections[c].input = "ok" =>
                  \E o \in 1..Len(outputs) : outputs[o].collection = c

(***************************************************************************)
(* Claims about extract_sections and extract_outline, continued            *)
(***************************************************************************)
\* C13: every section extract_sections returns, from a heading or as the
\* fallback for a document without headings, has a text of at most 5000
\* characters.
C13_SectionTextAtMost5000 ==
    ol_pc = "done" =>
        \A k \in 1..Len(sections) : Len(sections[k].text) <= MAX_TEXT

\* C14: every heading an outline extractor emits has a 1-indexed page
\* number -- here for PDFOutlineExtractor (1a): no heading of a written
\* result has page number 0, a heading of the first page has page number 1.
C14_PageNumbersOneIndexed ==
    \A i \in 1..Len(results) : \A k \in 1..Len(results[i].outline) :
        results[i].outline[k].page >= 1

\* Title normalisation as the specification words it: leading numbering
\* ("1. ", "2) ") and punctuation at either end stripped, case-folded,
\* whitespace collapsed.
PUNCTUATION == {".", ":", ",", ";", ")", "(", "-", "!", "?"}
SpecNormTitle(t) ==
    LET a == RunEnd(t, 1, SPACES)
        b == RunEnd(t, a + 1, DIGITS)
        numbered == b > a /\ b + 1 <= Len(t) /\ t[b + 1] \in {".", ":", ")"}
        rest == IF numbered THEN Suffix(t, b + 1) ELSE t
        first == RunEnd(rest, 1, SPACES \cup PUNCTUATION) + 1
        inner == SelectSeq(Indices(Len(rest)), LAMBDA i :
                    /\ i >= first
                    /\ \E j \in i..Len(rest) : rest[j] \notin SPACES \cup PUNCTUATION)
    IN  CollapseRuns(StrLower([j \in 1..Len(inner) |-> rest[inner[j]]]), SPACES)

\* C15: in the heading list extract_outline returns, every title has 3 to
\* 150 characters and no two headings have the same normalised title
\* ("Overview", "Overview:" and "1. Overview" are one title).
C15_TitlesUniqueNormalized ==
    ol_pc \in {"outlined", "done"} =>
        /\ \A k \in 1..Len(headings) :
              Len(headings[k].title) >= 3 /\ Len(headings[k].title) <= 150
        /\ \A a, b \in 1..Len(headings) :
              SpecNormTitle(headings[a].title) = SpecNormTitle(headings[b].title)
                  => a = b

\* The spans of the text blocks of the first two pages, as (page, block,
\* span) positions, and the rounded size of the span at a position.
EarlySpans(d) ==
    {pos \in (1..Min2(FONT_PAGES, Len(d))) \X (1..4) \X (1..4) :
        /\ pos[2] <= Len(PageBlocks(d[pos[1]]))
        /\ PageBlocks(d[pos[1]])[pos[2]].lines
        /\ pos[3] <= Len(PageBlocks(d[pos[1]])[pos[2]].spans)}
RoundedSizeAt(d, pos) == Round1(PageBlocks(d[pos[1]])[pos[2]].spans[pos[3]].size)
Occurrences(d, r) == Cardinality({pos \in EarlySpans(d) : RoundedSizeAt(d, pos) = r})

\* C19: the body font size extract_outline computes is the rounded font
\* size that most text spans of the first two pages have, every span
\* counted, and 12.0 when these pages have no text span.
C19_BodySizeIsMostFrequent ==
    ol_pc \in {"scanning", "outlined", "done"} =>
        IF EarlySpans(doc) = {} THEN body_size = DEFAULT_BODY_SIZE
        ELSE /\ \E pos \in EarlySpans(doc) : RoundedSizeAt(doc, pos) = body_size
             /\ \A pos \in EarlySpans(doc) :
                   Occurrences(doc, RoundedSizeAt(doc, pos)) <= Occurrences(doc, body_size)

(***************************************************************************)
(* Claims about rank_sections, continued                                   *)
(***************************************************************************)
\* C16: when the cross-encoder's predict raises, rank_sections still comes
\* to return a result, and the MMR loop gets the candidates in exactly the
\* score-descending order of stage 2; when predict succeeds, the first
\* max(10, 3*top_n) candidates are permuted among themselves and the
\* candidates behind them stay in score order behind the pool.
C16_CrossEncoderFailOpen ==
    rk_pc \in {"loop", "returned", "raised", "written"} =>
        /\ ranks_cross = "raises" =>
              (rk_pc # "raised" /\ ordered = OrderByScore(score))
        /\ ranks_cross = "ok" =>
              LET k == PoolSize(OrderByScore(score), top_n) IN
                 /\ Suffix(ordered, k) = Suffix(OrderByScore(score), k)
                 /\ SeqToSet(Prefix(ordered, k)) = SeqToSet(Prefix(OrderByScore(score), k))
                 /\ Len(ordered) = Len(score)

\* C18: the list rank_sections returns is in non-increasing order of the
\* retained value -- the mmr_score of a section that came into the
\* selection by evicting another one, the raw score of a section taken as
\* one of the first top_n -- and main writes importance_rank 1, 2, ... in
\* the order of that list.
C18_RankedByRetainedValue ==
    [][/\ (rk_pc = "loop" /\ rk_pc' = "returned") =>
              /\ \A j \in 1..Len(selected) :
                    mmr[selected[j]] # None <=> selected_idx[j] > top_n
              /\ \A a, b \in 1..Len(ranked') :
                    a < b => Retained(ranked'[a], mmr, score) >= Retained(ranked'[b], mmr, score)
              /\ SeqToSet(ranked') \subseteq SeqToSet(selected)
       /\ (rk_pc = "returned" /\ rk_pc' = "written") =>
              LET es == outputs'[Len(outputs')].extracted_sections IN
                 /\ Len(es) = Len(ranked)
                 /\ \A i \in 1..Len(es) :
                       es[i].section = ranked[i] /\ es[i].importance_rank = i
      ]_vars

\* C18 witness: the output is written for a ranked list of two sections of
\* equal raw score; the second of the selection came in by eviction and is
\* ranked first, by its mmr_score.
C18_Witness ==
    /\ rk_pc = "written"
    /\ Len(ranked) = 2
    /\ selected_idx[2] > top_n
    /\ ranked[1] = selected[2]
    /\ score[ranked[1]] = score[ranked[2]]
    /\ outputs[1].extracted_sections[2].importance_rank = 2

(***************************************************************************)
(* Claims about the page range of a section                                *)
(***************************************************************************)
\* The pages (1-based) the claim says are read for heading c of the ordered
\* heading list hs of document d.
C17_Span(h) == IF h.level = "H1" THEN 3 ELSE 2
C17_Next(d, hs, c) == IF c < Len(hs) THEN hs[c + 1].page_number - 1 ELSE Len(d)
C17_End(d, hs, c) ==
    Min2(C17_Next(d, hs, c),
         Min2((hs[c].page_number - 1) + C17_Span(hs[c]), Len(d)))
C17_RangeText(d, hs, c) ==
    Join([k \in 1..(C17_End(d, hs, c) - (hs[c].page_number - 1)) |->
             PageText(d[(hs[c].page_number - 1) + k])], <<>>)
C17_Pages(d, hs, c) ==
    IF Strip(C17_RangeText(d, hs, c)) = <<>>
    THEN {hs[c].page_number}
    ELSE hs[c].page_number .. C17_End(d, hs, c)
C17_PagesText(d, pages) ==
    Join([k \in 1..Cardinality(pages) |->
             PageText(d[(CHOOSE lo \in pages : \A q \in pages : lo <= q) + k - 1])], <<>>)
C17_Yielding(hs) ==
    SelectSeq(Indices(Len(hs)), LAMBDA i : is_clean_title(hs[i].title))

\* C17: the section of a heading reads the pages from the heading's page up
\* to, not including, the first of: the page of the next heading in
\* (page_number, -font_size) order, the heading's page plus 3 (H1) or 2
\* (H2, H3), the end of the document; when that range is empty or holds
\* only white space, it reads exactly the heading's own page.  So a section
\* covers at most 3 pages (H1) or 2 pages (H2, H3), and takes in the page
\* of the next heading only in the own-page case.
C17_SectionPageRange ==
    (ol_pc = "done" /\ headings # <<>>) =>
        LET hs == HeadingOrder(headings)
            yielding == C17_Yielding(hs)
        IN  /\ Len(sections) = Len(yielding)
            /\ \A k \in 1..Len(yielding) :
                  LET c == yielding[k]
                      pages == C17_Pages(doc, hs, c)
                      cleaned == _clean_page_text(C17_PagesText(doc, pages))
                  IN  /\ sections[k].text = Strip(Prefix(cleaned, MAX_TEXT))
                      /\ Cardinality(pages) <= C17_Span(hs[c])
                      /\ pages \subseteq 1..Len(doc)
                      /\ (c < Len(hs) /\ hs[c + 1].page_number \in pages)
                            => pages = {hs[c].page_number}

\* C17 witness: in a two-page document the first heading is on page 1 and
\* the next one on page 2, which holds text; the section of the first
\* heading reads page 1 only, although its span would reach page 2.
C17_Witness ==
    /\ ol_pc = "done" /\ headings # <<>>
    /\ Len(doc) = 2 /\ Len(sections) >= 2
    /\ LET hs == HeadingOrder(headings) IN
          /\ C17_Yielding(hs)[1] = 1 /\ hs[2].page_number = 2
          /\ C17_Pages(doc, hs, 1) = {1}
          /\ PageText(doc[2]) # <<>>
          /\ sections[1].text = Strip(_clean_page_text(PageText(doc[1])))

(***************************************************************************)
(* Claims about the embedding cache                                        *)
(***************************************************************************)
\* C20: a cache entry is immutable once written -- when a row for
\* (model_id, sha1(text)) exists, no step of any call of
\* encode_texts_with_cache, from any process on the same cache file and
\* with any normalize flag, changes the vector stored in it.
C20_CacheEntriesImmutable ==
    [][\A h \in Hashes : embeddings[h] # None => embeddings'[h] = embeddings[h]]_vars

(***************************************************************************)
(* Claims about deduplicate_sections, continued                            *)
(***************************************************************************)
\* C23: in the list deduplicate_sections returns, no two sections have
\* token sets whose Jaccard similarity is at or above the threshold.
C23_NoSimilarPairLeft ==
    dd_pc = "returned" =>
        \A a, b \in 1..Len(kept) :
            a # b => ~AtLeast(_jaccard(normalized_sets[kept[a]], normalized_sets[kept[b]]),
                              similarity_threshold)

(***************************************************************************)
(* Claims about the MMR loop                                               *)
(***************************************************************************)
\* C24: without a cross-encoder, and with a diversity coefficient and
\* cosine similarities that are not negative, the MMR loop evicts nothing
\* -- a candidate replaces a selected section only when diversity times its
\* similarity is negative, i.e. its mmr_score lies above its raw score --
\* and a run without eviction returns exactly the first top_n sections of
\* the score-descending order, whatever the diversity, as with diversity 0.
C24_NoEvictionWithoutNegativeSimilarity ==
    [][ranks_cross = "none" =>
          /\ (rk_pc = "loop" /\ rk_pc' = "loop" /\ Len(selected') = Len(selected)
              /\ selected' # selected)
                => /\ diversity > 0
                   /\ mmr'[ordered[rk_i]][1] > score[ordered[rk_i]]
          /\ (rk_pc' = "returned" /\ \A j \in 1..Len(selected_idx') : selected_idx'[j] <= top_n)
                => ranked' = Prefix(OrderByScore(score), top_n)
      ]_vars

\* C24 witness: no cross-encoder, diversity 0.3, three sections of different
\* scores compete for two places, nothing is evicted and the two best are
\* returned in score order.
C24_Witness ==
    /\ rk_pc = "returned" /\ ranks_cross = "none" /\ diversity > 0
    /\ top_n = 2 /\ Len(score) = 3
    /\ selected_idx = <<1, 2>>
    /\ score[ranked[1]] > score[ranked[2]]
    /\ \A id \in DOMAIN score : score[id] <= score[ranked[2]] \/ id = ranked[1]

\* C25: the _mmr annotation is transient -- once rank_sections has
\* returned, no section record of the input list carries _mmr, neither a
\* returned one nor one that was evicted during the selection.
C25_MmrAnnotationRemoved ==
    rk_pc \in {"returned", "written"} =>
        \A id \in DOMAIN mmr : mmr[id] = None

(***************************************************************************)
(* Claims about the heading levels of PDFOutlineExtractor                  *)
(***************************************************************************)
\* C22: when a language is detected for a file, every heading of its outline
\* whose text holds a primary heading term of that language has level H1,
\* and every heading whose text holds only a secondary term has level H2,
\* whatever the font size of the heading.
C22_MultilingualLevelKept ==
    \A k \in 1..Len(results) :
        results[k].detected_language # None =>
            \A j \in 1..Len(results[k].outline) :
                LET h == results[k].outline[j]
                    level == MultilingualLevel(StrLower(h.text), results[k].detected_language)
                IN  level \in {"H1", "H2"} => h.level = level

(***************************************************************************)
(* Claims about the result of extract_sections                             *)
(***************************************************************************)
\* C29: extract_sections returns the empty list exactly when the outline has
\* headings and no heading title passes the clean-title filter; with no
\* heading it returns the one fallback section; on the heading path the
\* sections are in non-decreasing page_number order and there is one section
\* per heading that passes the filter, with that heading's title and page.
C29_SectionsPerCleanHeading ==
    ol_pc = "done" =>
        LET passing == SelectSeq(headings, LAMBDA h : is_clean_title(h.title))
        IN  /\ sections = <<>> <=> (headings # <<>> /\ passing = <<>>)
            /\ headings = <<>> => Len(sections) = 1
            /\ headings # <<>> =>
                  /\ Len(sections) = Len(passing)
                  /\ \A a, b \in 1..Len(sections) :
                        a < b => sections[a].page_number <= sections[b].page_number
                  /\ \A i \in 1..Len(passing) :
                        Cardinality({k \in 1..Len(sections) :
                                        /\ sections[k].title = passing[i].title
                                        /\ sections[k].page_number = passing[i].page_number})
                          = Cardinality({j \in 1..Len(passing) :
                                        /\ passing[j].title = passing[i].title
                                        /\ passing[j].page_number = passing[i].page_number})

\* C29 witness: the outline has a heading and no heading passes the filter,
\* so the list of sections is empty.
C29_Witness ==
    ol_pc = "done" /\ headings # <<>> /\ sections = <<>>

(***************************************************************************)
(* Claims about the boosts of rank_sections                                *)
(***************************************************************************)
\* The cleaned texts, before the cut, of the headings that become sections.
C27_Cleaned ==
    LET sorted == HeadingOrder(headings)
        clean == SelectSeq(Indices(Len(sorted)), LAMBDA i : is_clean_title(sorted[i].title))
    IN  [k \in 1..Len(clean) |-> CleanedText(doc, sorted, clean[k])]

\* C27 as stated: a section whose cleaned text was longer than 5000
\* characters has a text of exactly 5000 characters and receives the length
\* penalty -0.10, not the boost +0.05.
C27_TruncatedSectionPenalised ==
    ol_pc = "boosted" /\ headings # <<>> =>
        \A k \in 1..Len(sections) :
            Len(C27_Cleaned[k]) > MAX_TEXT =>
                /\ Len(sections[k].text) = MAX_TEXT
                /\ boosts[k].length_boost = -1000

\* C27 amended: a section whose cleaned text was longer than 5000 characters
\* holds the first 5000 characters of it stripped of trailing whitespace.  It
\* has exactly 5000 characters and receives the penalty -0.10 when the
\* 5000th character of the cleaned text is not whitespace; otherwise it is
\* shorter than 5000 and receives the boost +0.05 when more than 250
\* characters are left.
C27_TruncatedSectionBoostByStrippedLength ==
    ol_pc = "boosted" /\ headings # <<>> =>
        \A k \in 1..Len(sections) :
            LET cleaned == C27_Cleaned[k]
                n == Len(sections[k].text)
            IN  Len(cleaned) > MAX_TEXT =>
                    /\ sections[k].text = Strip(Prefix(cleaned, MAX_TEXT))
                    /\ n = MAX_TEXT <=> cleaned[MAX_TEXT] \notin SPACES
                    /\ n = MAX_TEXT => boosts[k].length_boost = -1000
                    /\ 250 < n /\ n < MAX_TEXT => boosts[k].length_boost = 500
                    /\ n <= 250 => boosts[k].length_boost = -1000

\* C27 witness: the cut of a cleaned text of more than 5000 characters ends
\* in whitespace, the section keeps 4999 characters and receives the boost.
C27_Witness ==
    /\ ol_pc = "boosted" /\ headings # <<>>
    /\ \E k \in 1..Len(sections) :
          /\ Len(C27_Cleaned[k]) > MAX_TEXT
          /\ Len(sections[k].text) = MAX_TEXT - 1
          /\ boosts[k].length_boost = 500

(***************************************************************************)
(* Claims about the clean-title filter                                     *)
(***************************************************************************)
\* C28: the filter of the segmenter returns a boolean for every title and
\* never raises, and every title that passes it, and so becomes a section,
\* also passes the filter of the ranker and receives the title-quality
\* boost +0.07.
C28_SameCleanTitleFilter ==
    /\ tf_segmenter # "IndexError"
    /\ tf_pc = "ranked" => tf_ranker = 700

(***************************************************************************)
(* Claims about _build_queries                                             *)
(***************************************************************************)
\* C26: the three query variants are a function of (persona, job) -- two
\* runs of the program with the same persona and job return the same three
\* strings, character for character, the order of the terms of the
\* deduplicated term bag included.
C26_QueriesFunctionOfPersonaAndJob ==
    \A r1, r2 \in QueryRuns :
        bq_pc[r1] = "returned" /\ bq_pc[r2] = "returned" => bq_queries[r1] = bq_queries[r2]

(***************************************************************************)
(* Claims about the outputs and the cross-collection library               *)
(***************************************************************************)
\* C21: once main has written the output of a collection and
\* build_and_save_library(rebuild=False) has returned, the saved metadata
\* holds an entry for every extracted section of every output under the
\* output root, the outputs written after the library was first built
\* included, and the saved index, where one is kept, holds the vectors of
\* exactly those entries.
C21_LibraryHoldsEveryOutput ==
    li_pc = "built" =>
        /\ meta_file # None
        /\ \A k \in 1..Len(output_files) :
              \A i \in 1..Len(output_files[k].extracted_sections) :
                  LET sec == output_files[k].extracted_sections[i]
                  IN  \E e \in 1..Len(meta_file[1]) :
                          /\ meta_file[1][e].collection = k
                          /\ meta_file[1][e].document = sec.document
                          /\ meta_file[1][e].section_title = sec.section_title
                          /\ meta_file[1][e].page_number = sec.page_number
        /\ index_file # None => index_file[1] = MetaTexts(meta_file[1])

\* C30: load_sections_from_output pairs every extracted section with its own
\* refined text -- the text of the i-th loaded section is the refined_text
\* of the i-th subsection_analysis entry, the one made from the same ranked
\* section, also when several ranked sections share document and page.
C30_SectionsPairedWithOwnText ==
    li_pc = "recommended" =>
        LET data == output_files[Len(output_files)]
        IN  /\ Len(loaded_sections) = Len(data.extracted_sections)
            /\ \A i \in 1..Len(loaded_sections) :
                  loaded_sections[i].text = data.subsection_analysis[i].refined_text

====
